---- MODULE Spec2Model ----
(***************************************************************************)
(* A model of the debate engine of Nebius-Debate-AI: the Response Client   *)
(* (api_client.py: AIClient), the persona configuration (config.py:        *)
(* AppConfig) and the two turn engines (debate_engine.py: DebateEngine and *)
(* EnhancedDebateEngine).                                                  *)
(*                                                                         *)
(* Strings of the program are modelled as TEXTS: sequences of tokens, a    *)
(* token being a word, a punctuation mark or a run of whitespace, given    *)
(* with its lower-cased form.  Numbers in [0,1] are kept in tenths.        *)
(***************************************************************************)
EXTENDS Integers, Sequences, FiniteSets, TLC

(***************************************************************************)
(* Bounds of the model.                                                    *)
(***************************************************************************)
\* turns generated over the life of one engine
MaxTurns == 3
\* the largest num_turns given to one generate_responses call
MaxNumTurns == 2
\* user messages added to one engine
MaxUserMessages == 1
\* assistant messages of the transcript the phase machine is exercised on
MaxAssistant == 11

(***************************************************************************)
(* Texts.                                                                  *)
(***************************************************************************)
\* a token whose text is s and whose lower-cased text is l
U(s, l) == [s |-> s, l |-> l]
\* a token that is lower case already
W(s) == U(s, s)
\* one blank
Sp == W(" ")

\* the words ws with one blank between neighbours
RECURSIVE Join(_)
Join(ws) ==
    IF Len(ws) = 0 THEN <<>>
    ELSE IF Len(ws) = 1 THEN <<ws[1]>>
    ELSE <<ws[1], Sp>> \o Join(Tail(ws))

\* lower-case words, blank separated
Phrase(ws) == Join([i \in DOMAIN ws |-> W(ws[i])])
\* a capitalised first word followed by lower-case words
Sentence(first, firstLower, ws) == Join(<<U(first, firstLower)>> \o [i \in DOMAIN ws |-> W(ws[i])])

\* str.lower()
Lower(text) == [i \in DOMAIN text |-> W(text[i].l)]

IsSpace(tok) == tok.s \in {" ", "\t", "\n"}

\* str.strip(): leading and trailing whitespace removed
RECURSIVE LStrip(_)
LStrip(text) ==
    IF Len(text) > 0 /\ IsSpace(text[1]) THEN LStrip(Tail(text)) ELSE text
RECURSIVE RStrip(_)
RStrip(text) ==
    IF Len(text) > 0 /\ IsSpace(text[Len(text)])
    THEN RStrip(SubSeq(text, 1, Len(text) - 1))
    ELSE text
Strip(text) == RStrip(LStrip(text))

\* text begins with prefix
BeginsWith(text, prefix) ==
    /\ Len(prefix) <= Len(text)
    /\ SubSeq(text, 1, Len(prefix)) = prefix

\* Pairs <<p, t>> of distinct words of the configuration with p a substring of t.
ProperSubwords == {<<"tradition", "traditional">>}
WordIn(p, t) == p.s = t.s \/ <<p.s, t.s>> \in ProperSubwords

\* `pat in text` (substring).  A one-word pattern may lie inside a word; a
\* longer pattern is matched word by word, which is exact for the words of
\* the configuration.
Contains(text, pat) ==
    \/ Len(pat) = 0
    \/ \E i \in 1..(Len(text) - Len(pat) + 1) :
          \A j \in 1..Len(pat) :
              IF Len(pat) = 1 THEN WordIn(pat[j], text[i + j - 1])
              ELSE pat[j] = text[i + j - 1]

(***************************************************************************)
(* config.py: the persona configuration.                                   *)
(***************************************************************************)
\* the keys of AppConfig.agents, in insertion order
AgentKeys == <<"progressive", "conservative">>

Progressive ==
    [ name    |-> Join(<<U("Radical", "radical"), U("Progressive", "progressive")>>),
      model   |-> "meta-llama/Llama-3.3-70B-Instruct",
      stance  |-> "left",
      primary_style |-> "aggressive",
      trigger_phrases |->
        << Phrase(<<"personal", "responsibility">>),
           Phrase(<<"traditional", "values">>),
           Phrase(<<"market", "solutions">>),
           Phrase(<<"individual", "merit">>) >>,
      core_beliefs |->
        << Sentence("All", "all", <<"systems", "are", "tools", "of", "oppression">>),
           Sentence("Individual", "individual", <<"success", "is", "purely", "systemic", "privilege">>),
           Sentence("Traditional", "traditional", <<"values", "perpetuate", "oppression">>),
           Sentence("Radical", "radical", <<"change", "is", "the", "only", "solution">>),
           Sentence("Opposition", "opposition", <<"views", "promote", "harm">>) >>,
      counter_arguments |->
        << [key |-> Phrase(<<"merit">>),
            args |-> <<Sentence("Merit", "merit", <<"is", "a", "myth", "created", "by", "oppressors">>)>>],
           [key |-> Phrase(<<"tradition">>),
            args |-> <<Sentence("Traditions", "traditions", <<"are", "tools", "of", "oppression">>)>>],
           [key |-> Phrase(<<"markets">>),
            args |-> <<Sentence("Markets", "markets", <<"perpetuate", "inequality">>)>>],
           [key |-> Phrase(<<"individual_rights">>),
            args |-> <<Sentence("Individual", "individual", <<"rights", "enable", "oppression">>)>>] >> ]

Conservative ==
    [ name    |-> Join(<<U("Hardline", "hardline"), U("Conservative", "conservative")>>),
      model   |-> "Qwen/Qwen2.5-32B-Instruct",
      stance  |-> "right",
      primary_style |-> "confrontational",
      trigger_phrases |->
        << Phrase(<<"social", "justice">>),
           Phrase(<<"systemic", "change">>),
           Phrase(<<"privilege">>),
           Phrase(<<"oppression">>) >>,
      core_beliefs |->
        << Sentence("Personal", "personal", <<"failure", "is", "the", "only", "cause", "of", "problems">>),
           Sentence("Traditional", "traditional", <<"values", "are", "absolutely", "correct">>),
           Sentence("Change", "change", <<"is", "moral", "decay">>),
           Sentence("Opposition", "opposition", <<"views", "destroy", "society">>),
           Sentence("Individual", "individual", <<"responsibility", "is", "absolute">>) >>,
      counter_arguments |->
        << [key |-> Phrase(<<"systemic">>),
            args |-> <<Sentence("Systems", "systems", <<"don't", "cause", "personal", "failure">>)>>],
           [key |-> Phrase(<<"change">>),
            args |-> <<Sentence("Change", "change", <<"destroys", "social", "fabric">>)>>],
           [key |-> Phrase(<<"collective">>),
            args |-> <<Sentence("Collective", "collective", <<"action", "is", "socialism">>)>>],
           [key |-> Phrase(<<"reform">>),
            args |-> <<Sentence("Reform", "reform", <<"undermines", "values">>)>>] >> ]

\* AppConfig(): the generation parameters (temperature and the like in
\* hundredths) and the two personas set by __post_init__
AppConfig ==
    [ api_base          |-> "https://api.studio.nebius.ai/v1/chat/completions",
      api_key           |-> "api-key",
      max_tokens        |-> 500,
      temperature       |-> 95,
      top_p             |-> 95,
      frequency_penalty |-> 50,
      presence_penalty  |-> 50,
      agents            |-> [progressive |-> Progressive, conservative |-> Conservative] ]

\* len(self.config.agents)
NumAgents == Len(AgentKeys)

(***************************************************************************)
(* JSON values and the Python operations generate_response applies to the  *)
(* decoded body.  An operation yields Ok(v) or Raise(exception).           *)
(***************************************************************************)
JNull == [t |-> "null"]
JNum(n) == [t |-> "num", v |-> n]
JStr(text) == [t |-> "str", v |-> text]
JList(seq) == [t |-> "list", v |-> seq]
\* an object, given as a function from its keys
JObj(f) == [t |-> "obj", v |-> f]
JEmptyObj == JObj(<<>>)

Ok(v) == [tag |-> "ok", v |-> v]
\* an exception of class cls; req: the class derives from
\* requests.exceptions.RequestException; msg is str(e)
Exc(cls, req, msg) == [cls |-> cls, req |-> req, msg |-> msg]
Raise(e) == [tag |-> "raise", exc |-> e]

\* dict.get(key): None when the key is absent; only a dict has .get
PyGet(j, key) ==
    IF j.t = "obj"
    THEN Ok(IF key \in DOMAIN j.v THEN j.v[key] ELSE JNull)
    ELSE Raise(Exc("AttributeError", FALSE, <<W("no attribute 'get'")>>))

\* not j: None, 0, "", [] and {} are false
PyNot(j) ==
    CASE j.t = "null" -> TRUE
      [] j.t = "num"  -> j.v = 0
      [] j.t = "str"  -> Len(j.v) = 0
      [] j.t = "list" -> Len(j.v) = 0
      [] j.t = "obj"  -> DOMAIN j.v = {}
      [] OTHER        -> FALSE

\* j[0]
PyIndex0(j) ==
    CASE j.t = "list" ->
            IF Len(j.v) > 0 THEN Ok(j.v[1])
            ELSE Raise(Exc("IndexError", FALSE, <<W("list index out of range")>>))
      [] j.t = "str"  ->
            IF Len(j.v) > 0 THEN Ok(JStr(<<j.v[1]>>))
            ELSE Raise(Exc("IndexError", FALSE, <<W("string index out of range")>>))
      [] j.t = "obj"  -> Raise(Exc("KeyError", FALSE, <<W("0")>>))
      [] OTHER        -> Raise(Exc("TypeError", FALSE, <<W("not subscriptable")>>))

\* j[key] for a string key
PyItem(j, key) ==
    CASE j.t = "obj" ->
            IF key \in DOMAIN j.v THEN Ok(j.v[key])
            ELSE Raise(Exc("KeyError", FALSE, <<W(key)>>))
      [] j.t \in {"list", "str"} ->
            Raise(Exc("TypeError", FALSE, <<W("indices must be integers")>>))
      [] OTHER -> Raise(Exc("TypeError", FALSE, <<W("not subscriptable")>>))

\* j.strip(): only a str has it
PyStrip(j) ==
    IF j.t = "str" THEN Ok(JStr(Strip(j.v)))
    ELSE Raise(Exc("AttributeError", FALSE, <<W("no attribute 'strip'")>>))

(***************************************************************************)
(* api_client.py: AIClient.generate_response.                              *)
(*                                                                         *)
(* What the HTTP call does is an input: http = [transport_ok, status_ok,   *)
(* body], body a JSON value or the marker NonJson(req) of a body that does *)
(* not decode (req: the decoder's error derives from RequestException, as  *)
(* it does in requests >= 2.27, or is a plain ValueError).                 *)
(***************************************************************************)
NonJson(req) == [t |-> "nonjson", req |-> req]
Http(transport_ok, status_ok, body) ==
    [transport_ok |-> transport_ok, status_ok |-> status_ok, body |-> body]

EmptyResponseText ==
    Join(<<U("The", "the"), U("AI", "ai"), W("model"), W("returned"), W("an"),
           W("empty"), W("response.")>>)
ErrorPrefix == Join(<<U("Error", "error"), W("generating"), W("response:")>>)
\* f"Error generating response: {e}"
ErrorText(e) == ErrorPrefix \o <<Sp>> \o e.msg

\* headers and data of the POST
RequestOf(config, messages, model) ==
    [ url     |-> config.api_base,
      headers |-> [Authorization |-> <<"Bearer", config.api_key>>,
                   ContentType   |-> "application/json"],
      json    |-> [model       |-> model,
                   messages    |-> messages,
                   max_tokens  |-> config.max_tokens,
                   temperature |-> config.temperature] ]

\* ['choices'][0]['message']['content'] of the decoded body
ContentOf(json) ==
    LET choices == PyItem(json, "choices") IN
    IF choices.tag = "raise" THEN choices ELSE
    LET first == PyIndex0(choices.v) IN
    IF first.tag = "raise" THEN first ELSE
    LET message == PyItem(first.v, "message") IN
    IF message.tag = "raise" THEN message ELSE
    PyItem(message.v, "content")

\* the try block without its check for an empty `choices`
TryBlockNoChoicesCheck(http) ==
    IF ~http.transport_ok
    THEN Raise(Exc("ConnectionError", TRUE, <<W("connection failed")>>))
    ELSE IF ~http.status_ok
    THEN Raise(Exc("HTTPError", TRUE, <<W("bad status")>>))
    ELSE IF http.body.t = "nonjson"
    THEN Raise(Exc("JSONDecodeError", http.body.req, <<W("expecting value")>>))
    ELSE
    LET content == ContentOf(http.body) IN
    IF content.tag = "raise" THEN content ELSE
    LET stripped == PyStrip(content.v) IN
    IF stripped.tag = "raise" THEN stripped
    ELSE IF PyNot(stripped.v) THEN Ok(EmptyResponseText)
    ELSE Ok(content.v.v)

\* the try block: Ok(text returned) or Raise(exception)
TryBlock(http) ==
    IF ~http.transport_ok
    THEN Raise(Exc("ConnectionError", TRUE, <<W("connection failed")>>))
    ELSE IF ~http.status_ok
    THEN Raise(Exc("HTTPError", TRUE, <<W("bad status")>>))
    ELSE IF http.body.t = "nonjson"
    THEN Raise(Exc("JSONDecodeError", http.body.req, <<W("expecting value")>>))
    ELSE
    LET response_json == http.body
        choices == PyGet(response_json, "choices") IN
    IF choices.tag = "raise" THEN choices
    ELSE IF PyNot(choices.v) THEN Ok(EmptyResponseText)
    ELSE
    LET content == ContentOf(response_json) IN
    IF content.tag = "raise" THEN content ELSE
    LET stripped == PyStrip(content.v) IN
    IF stripped.tag = "raise" THEN stripped
    ELSE IF PyNot(stripped.v) THEN Ok(EmptyResponseText)
    ELSE Ok(content.v.v)

\* the except clauses without the catch-all `except Exception`
ExceptClausesRequestOnly(r) ==
    IF r.tag = "ok" THEN [tag |-> "return", v |-> r.v]
    ELSE IF r.exc.req THEN [tag |-> "return", v |-> ErrorText(r.exc)]
    ELSE [tag |-> "raise", exc |-> r.exc]

\* the two except clauses: what the call gives its caller
ExceptClauses(r) ==
    IF r.tag = "ok" THEN [tag |-> "return", v |-> r.v]
    ELSE IF r.exc.req THEN [tag |-> "return", v |-> ErrorText(r.exc)]
    ELSE [tag |-> "return", v |-> ErrorText(r.exc)]

\* generate_response that posts a second time when the first try raised
GenerateResponseRetries(config, messages, model, http) ==
    [ http    |-> http,
      request |-> RequestOf(config, messages, model),
      posts   |-> IF TryBlock(http).tag = "raise" THEN 2 ELSE 1,
      outcome |-> ExceptClauses(TryBlock(http)) ]

\* generate_response(messages, model): what the HTTP call did, the request
\* posted, the number of POSTs made and the outcome for the caller
GenerateResponse(config, messages, model, http) ==
    [ http    |-> http,
      request |-> RequestOf(config, messages, model),
      posts   |-> 1,
      outcome |-> ExceptClauses(TryBlock(http)) ]

(***************************************************************************)
(* Python values used by the engine.                                       *)
(***************************************************************************)
None == [t |-> "none"]
\* StanceType(value): the enum member with that value
StanceType(v) == [t |-> "StanceType", v |-> v]

\* A dict is kept as the sequence of its items in insertion order.
EmptyDict == <<>>
DictKeys(d) == {d[i].k : i \in DOMAIN d}
DictHas(d, k) == k \in DictKeys(d)
DictGet(d, k) == d[CHOOSE i \in DOMAIN d : d[i].k = k].v
DictSet(d, k, v) ==
    IF DictHas(d, k)
    THEN [i \in DOMAIN d |-> IF d[i].k = k THEN [k |-> k, v |-> v] ELSE d[i]]
    ELSE Append(d, [k |-> k, v |-> v])
\* defaultdict(list)[k]: the value read, the key being inserted when missing
DefaultGet(d, k) == IF DictHas(d, k) THEN DictGet(d, k) ELSE <<>>
DefaultTouch(d, k) == IF DictHas(d, k) THEN d ELSE Append(d, [k |-> k, v |-> <<>>])

\* the elements of a sequence
Range(seq) == {seq[i] : i \in DOMAIN seq}

(***************************************************************************)
(* debate_engine.py: Message.                                              *)
(***************************************************************************)
Message(role, content, model, timestamp, stance, metadata) ==
    [ role |-> role, content |-> content, model |-> model,
      timestamp |-> timestamp, stance |-> stance, metadata |-> metadata ]

\* the values of the members of StanceType
StanceValues == {"left", "right", "neutral"}

\* bool(value) of a stance field: None and the empty string are false
Truthy(value) == value # None /\ ~(value.t = "str" /\ value.v = "")

\* Message.to_dict
ToDict(message) ==
    [ role |-> message.role,
      content |-> message.content,
      model |-> message.model,
      timestamp |-> message.timestamp,
      stance |-> IF Truthy(message.stance)
                 THEN [t |-> "str", v |-> message.stance.v]
                 ELSE None,
      metadata |-> message.metadata ]

\* from_dict that leaves data['stance'] the string it found
FromDictKeepsStanceString(data) ==
    Ok(Message(data.role, data.content, data.model, data.timestamp,
               data.stance, data.metadata))

\* Message.from_dict: Ok(message), or the ValueError of StanceType(value)
\* for a value of no member
FromDict(data) ==
    IF Truthy(data.stance)
    THEN IF data.stance.v \in StanceValues
         THEN Ok(Message(data.role, data.content, data.model, data.timestamp,
                         StanceType(data.stance.v), data.metadata))
         ELSE Raise(Exc("ValueError", FALSE,
                        <<W(data.stance.v), Sp, W("is not a valid StanceType")>>))
    ELSE Ok(Message(data.role, data.content, data.model, data.timestamp,
                    data.stance, data.metadata))

\* time.time() at the creation of a message: a logical clock that ticks
\* once per message of the transcript
Now(conversation) == Len(conversation)

\* DebateEngine._generate_agent_prompt
GenerateAgentPrompt(agent) ==
    Join(<<U("You", "you"), W("are")>>) \o <<Sp>> \o agent.name
      \o <<Sp, W("with"), Sp, W(agent.stance), Sp, W("stance.")>>

\* DebateEngine._initialize_conversation: one system message per persona,
\* appended to `conversation` in the order of config.agents
RECURSIVE InitializeConversation(_, _, _)
InitializeConversation(config, conversation, i) ==
    IF i > Len(AgentKeys) THEN conversation
    ELSE LET agent == config.agents[AgentKeys[i]] IN
         InitializeConversation(config,
            Append(conversation,
                   Message("system", GenerateAgentPrompt(agent), agent.model,
                           Now(conversation), StanceType(agent.stance),
                           {<<"agent_name", agent.name>>})),
            i + 1)

\* DebateEngine._serialize_message
SerializeMessage(message) ==
    [ role |-> message.role,
      content |-> message.content,
      model |-> message.model,
      timestamp |-> message.timestamp,
      stance |-> IF message.stance.t = "StanceType"
                 THEN [t |-> "str", v |-> message.stance.v]
                 ELSE message.stance,
      metadata |-> message.metadata ]

(***************************************************************************)
(* debate_engine.py: the phase machine and the argument structures of      *)
(* EnhancedDebateEngine.                                                   *)
(***************************************************************************)
DebatePhases == <<"opening", "exploration", "confrontation", "resolution", "reflection">>

\* phase_transitions of _progress_debate_phase, in the order of the dict
PhaseTransitions ==
    << [from |-> "opening",       threshold |-> 3,  to |-> "exploration"],
       [from |-> "exploration",   threshold |-> 5,  to |-> "confrontation"],
       [from |-> "confrontation", threshold |-> 8,  to |-> "resolution"],
       [from |-> "resolution",    threshold |-> 10, to |-> "reflection"] >>

\* len([m for m in self.conversation if m.role == "assistant"])
AssistantCount(conversation) ==
    Cardinality({i \in DOMAIN conversation : conversation[i].role = "assistant"})

\* the for loop of _progress_debate_phase from entry i on: the first entry
\* that matches sets the phase and breaks
RECURSIVE PhaseLoop(_, _, _)
PhaseLoop(phase, current_messages, i) ==
    IF i > Len(PhaseTransitions) THEN phase
    ELSE IF phase = PhaseTransitions[i].from
            /\ current_messages >= PhaseTransitions[i].threshold
    THEN PhaseTransitions[i].to
    ELSE PhaseLoop(phase, current_messages, i + 1)

\* _progress_debate_phase with the target of the last transition mistyped
ProgressDebatePhaseWrongTarget(phase, conversation) ==
    IF phase = "resolution" /\ AssistantCount(conversation) >= 10
    THEN "exploration"
    ELSE PhaseLoop(phase, AssistantCount(conversation), 1)

\* _progress_debate_phase that asks for more messages than the threshold
ProgressDebatePhaseAboveThreshold(phase, conversation) ==
    IF \E i \in DOMAIN PhaseTransitions :
          /\ PhaseTransitions[i].from = phase
          /\ AssistantCount(conversation) > PhaseTransitions[i].threshold
    THEN PhaseLoop(phase, AssistantCount(conversation), 1)
    ELSE phase

\* _progress_debate_phase without the break: every transition that matches
\* fires, one after the other
ProgressDebatePhaseCascading(phase, conversation) ==
    LET n == AssistantCount(conversation) IN
    PhaseLoop(PhaseLoop(PhaseLoop(PhaseLoop(phase, n, 1), n, 1), n, 1), n, 1)

\* EnhancedDebateEngine._progress_debate_phase: the new current_phase
ProgressDebatePhase(phase, conversation) ==
    PhaseLoop(phase, AssistantCount(conversation), 1)

ArgumentStructure(premises, conclusion, evidence, counter, fallbacks) ==
    [ premises |-> premises, conclusion |-> conclusion,
      supporting_evidence |-> evidence, counter_arguments |-> counter,
      fallback_positions |-> fallbacks ]

\* strength_modifiers of strengthen_argument, keyed by confidence in tenths
StrengthModifiers ==
    << [k |-> 8, v |-> << <<U("Clearly", "clearly")>>,
                          <<U("Obviously", "obviously")>>,
                          Sentence("Without", "without", <<"doubt">>) >>],
       [k |-> 6, v |-> << Sentence("Evidence", "evidence", <<"suggests">>),
                          Sentence("Research", "research", <<"shows">>),
                          Sentence("Studies", "studies", <<"indicate">>) >>],
       [k |-> 4, v |-> << Sentence("One", "one", <<"could", "argue">>),
                          Sentence("It", "it", <<"appears", "that">>),
                          Sentence("Consider", "consider", <<"that">>) >>] >>

SetMax(S) == CHOOSE x \in S : \A y \in S : y <= x

\* strengthen_argument taking the smallest of the tiers the confidence reaches
StrengthenArgumentLowestTier(argument, confidence) ==
    LET tiers == {k \in DictKeys(StrengthModifiers) : confidence >= k} IN
    IF tiers = {}
    THEN {Raise(Exc("ValueError", FALSE, <<W("max() arg is an empty sequence")>>))}
    ELSE IF Len(argument.premises) = 0
    THEN {Raise(Exc("IndexError", FALSE, <<W("Cannot choose from an empty sequence")>>))}
    ELSE { Ok(modifier \o <<W(","), Sp>> \o argument.conclusion
                \o <<Sp, W("because"), Sp>> \o premise \o <<W(".")>>) :
             modifier \in Range(DictGet(StrengthModifiers,
                                        CHOOSE x \in tiers : \A y \in tiers : x <= y)),
             premise \in Range(argument.premises) }

\* ArgumentStructure.strengthen_argument: the results the random choices
\* allow, each Ok(text) or Raise (max() of no tier, choice from no premise)
StrengthenArgument(argument, confidence) ==
    LET tiers == {k \in DictKeys(StrengthModifiers) : confidence >= k} IN
    IF tiers = {}
    THEN {Raise(Exc("ValueError", FALSE, <<W("max() arg is an empty sequence")>>))}
    ELSE IF Len(argument.premises) = 0
    THEN {Raise(Exc("IndexError", FALSE, <<W("Cannot choose from an empty sequence")>>))}
    ELSE { Ok(modifier \o <<W(","), Sp>> \o argument.conclusion
                \o <<Sp, W("because"), Sp>> \o premise \o <<W(".")>>) :
             modifier \in Range(DictGet(StrengthModifiers, SetMax(tiers))),
             premise \in Range(argument.premises) }

\* EnhancedDebateEngine._generate_premises / _generate_evidence / _generate_fallbacks
GeneratePremises(belief) ==
    << Sentence("Support", "support", <<"for">>) \o <<Sp>> \o belief,
       Sentence("Evidence", "evidence", <<"for">>) \o <<Sp>> \o belief >>
GenerateEvidence(belief) ==
    << Join(<<U("Evidence", "evidence"), U("A", "a"), W("for")>>) \o <<Sp>> \o belief,
       Join(<<U("Evidence", "evidence"), U("B", "b"), W("for")>>) \o <<Sp>> \o belief >>
GenerateFallbacks(belief) ==
    << Join(<<U("Fallback", "fallback"), W("1"), W("for")>>) \o <<Sp>> \o belief,
       Join(<<U("Fallback", "fallback"), W("2"), W("for")>>) \o <<Sp>> \o belief >>

\* sequences concatenated in order
RECURSIVE Flatten(_)
Flatten(seqs) == IF Len(seqs) = 0 THEN <<>> ELSE Head(seqs) \o Flatten(Tail(seqs))

\* the counter-arguments of agent_config whose key occurs in the belief
RelevantCounterArgs(agent_config, belief) ==
    Flatten([i \in DOMAIN agent_config.counter_arguments |->
               IF Contains(Lower(belief), Lower(agent_config.counter_arguments[i].key))
               THEN agent_config.counter_arguments[i].args
               ELSE <<>>])

\* the key of config.agents as a dict key of the engine
KeyText(key) == <<W(key)>>

\* EnhancedDebateEngine._build_argument_registry: keyed by the keys of
\* config.agents, one ArgumentStructure per core belief
BuildArgumentRegistry(config) ==
    [ a \in DOMAIN AgentKeys |->
        LET agent_config == config.agents[AgentKeys[a]] IN
        [ k |-> KeyText(AgentKeys[a]),
          v |-> [ b \in DOMAIN agent_config.core_beliefs |->
                    LET belief == agent_config.core_beliefs[b] IN
                    ArgumentStructure(GeneratePremises(belief), belief,
                                      GenerateEvidence(belief),
                                      RelevantCounterArgs(agent_config, belief),
                                      GenerateFallbacks(belief)) ] ] ]

\* calculate_emotional_impact without the cap at 1.0
CalculateEmotionalImpactUncapped(personality, message_content, trigger_words) ==
    LET trigger_count ==
          Cardinality({i \in DOMAIN trigger_words :
                         Contains(Lower(message_content), trigger_words[i])})
    IN  trigger_count * personality.trigger_sensitivity

\* PersonalityDynamics.calculate_emotional_impact, in tenths
CalculateEmotionalImpact(personality, message_content, trigger_words) ==
    LET trigger_count ==
          Cardinality({i \in DOMAIN trigger_words :
                         Contains(Lower(message_content), trigger_words[i])})
        impact == trigger_count * personality.trigger_sensitivity
    IN  IF impact < 10 THEN impact ELSE 10

(***************************************************************************)
(* The state: one engine (its attributes), and what its caller and its     *)
(* Response Client have seen of it.                                        *)
(***************************************************************************)
VARIABLES
    engine,                 \* the class constructed: "base" (DebateEngine) or "enhanced"
    config,                 \* self.config
    conversation,           \* self.conversation
    status,                 \* self.status
    current_agent_index,    \* self.current_agent_index
    error_count,            \* self.error_count
    current_phase,          \* self.current_phase (EnhancedDebateEngine)
    personality_dynamics,   \* self.personality_dynamics (EnhancedDebateEngine)
    argument_registry,      \* self.argument_registry (EnhancedDebateEngine)
    analytics,              \* self.analytics (EnhancedDebateEngine)
    responses,              \* what the last generate_responses call returned
    raised,                 \* the exception the last call let escape, or None
    client_log,             \* the calls of client.generate_response so far, in order
    turn_log,               \* the turns generated so far, in order
    last_call,              \* the operation the caller invoked last, or None
    sessions,               \* several engines side by side: their attributes, or None
    heap,                   \* the mutable objects those engines refer to, or None
    session_state           \* st.session_state of the application, or None

vars == << engine, config, conversation, status, current_agent_index, error_count,
           current_phase, personality_dynamics, argument_registry, analytics,
           responses, raised, client_log, turn_log, last_call, sessions, heap,
           session_state >>

\* self.max_errors
MaxErrors == 3

\* the engine as one record
Self ==
    [ engine |-> engine, config |-> config, conversation |-> conversation, status |-> status,
      current_agent_index |-> current_agent_index, error_count |-> error_count,
      current_phase |-> current_phase, personality_dynamics |-> personality_dynamics,
      argument_registry |-> argument_registry, analytics |-> analytics,
      responses |-> responses, raised |-> raised, client_log |-> client_log,
      turn_log |-> turn_log, last_call |-> last_call ]

\* the engine is in the next state the record s
EngineBecomes(s) ==
    /\ engine' = s.engine
    /\ config' = s.config
    /\ conversation' = s.conversation
    /\ status' = s.status
    /\ current_agent_index' = s.current_agent_index
    /\ error_count' = s.error_count
    /\ current_phase' = s.current_phase
    /\ personality_dynamics' = s.personality_dynamics
    /\ argument_registry' = s.argument_registry
    /\ analytics' = s.analytics
    /\ responses' = s.responses
    /\ raised' = s.raised
    /\ client_log' = s.client_log
    /\ turn_log' = s.turn_log
    /\ last_call' = s.last_call

\* the next state is the record s
Becomes(s) ==
    /\ EngineBecomes(s)
    /\ UNCHANGED << sessions, heap, session_state >>

(***************************************************************************)
(* Construction.                                                           *)
(***************************************************************************)
\* the values random.uniform(0.3, 0.8) is drawn from, in tenths
SensitivityValues == {3, 8}
\* the members random.choice(list(EmotionalState)) is drawn from
EmotionalStateValues == {"calm", "aggressive"}
\* random.uniform(0.2, 0.6), random.uniform(0.4, 0.9), random.uniform(0.3, 0.7)
AdaptationValues == {4}
ConfidenceValues == {6}
LearningValues == {5}

PersonalityDynamics ==
    [ base_emotional_state : EmotionalStateValues,
      trigger_sensitivity : SensitivityValues,
      adaptation_rate : AdaptationValues,
      confidence_level : ConfidenceValues,
      learning_coefficient : LearningValues ]

\* DebateAnalytics.__init__
DebateAnalytics ==
    [ argument_effectiveness |-> EmptyDict,
      emotional_trajectories |-> EmptyDict,
      strategy_adaptations   |-> EmptyDict,
      interaction_patterns   |-> EmptyDict ]

\* DebateEngine.__init__
DebateEngineInit ==
    /\ config = AppConfig
    /\ conversation = InitializeConversation(config, <<>>, 1)
    /\ status = "not_started"
    /\ current_agent_index = 0
    /\ error_count = 0
    /\ responses = <<>>
    /\ raised = None
    /\ client_log = <<>>
    /\ turn_log = <<>>
    /\ last_call = None
    /\ sessions = None
    /\ heap = None
    /\ session_state = None

\* EnhancedDebateEngine.__init__, the personalities p being the random draws
\* of _initialize_personality_dynamics
EnhancedDebateEngineInit(p) ==
    /\ DebateEngineInit
    /\ analytics = DebateAnalytics
    /\ current_phase = "opening"
    /\ personality_dynamics =
          [a \in DOMAIN AgentKeys |-> [k |-> KeyText(AgentKeys[a]), v |-> p[a]]]
    /\ argument_registry = BuildArgumentRegistry(config)

Init ==
    \/ /\ engine = "base"
       /\ DebateEngineInit
       /\ analytics = None
       /\ current_phase = None
       /\ personality_dynamics = None
       /\ argument_registry = None
    \/ /\ engine = "enhanced"
       /\ \E p \in [DOMAIN AgentKeys -> PersonalityDynamics] : EnhancedDebateEngineInit(p)

(***************************************************************************)
(* DebateEngine: the operations.                                           *)
(***************************************************************************)
\* the topics add_user_message is given
Topics == { Phrase(<<"tax", "policy">>) }

UserMessageCount(conv) == Cardinality({i \in DOMAIN conv : conv[i].role = "user"})

\* add_user_message that seeds the first persona's system message once more
AddUserMessageReseeds(s, message_content) ==
    [s EXCEPT !.conversation =
                  Append(Append(@, Message("user", message_content, "", Now(@), None, {})),
                         @[1]),
              !.last_call = [op |-> "add_user_message", message_content |-> message_content]]

\* add_user_message that inserts the message before the last one
AddUserMessageBeforeLast(s, message_content) ==
    [s EXCEPT !.conversation =
                  SubSeq(@, 1, Len(@) - 1)
                    \o <<Message("user", message_content, "", Now(@), None, {})>>
                    \o SubSeq(@, Len(@), Len(@)),
              !.last_call = [op |-> "add_user_message", message_content |-> message_content]]

\* add_user_message that restarts the rotation of the personas
AddUserMessageRestartsRotation(s, message_content) ==
    [s EXCEPT !.conversation =
                  Append(@, Message("user", message_content, "", Now(@), None, {})),
              !.current_agent_index = 0,
              !.last_call = [op |-> "add_user_message", message_content |-> message_content]]

\* DebateEngine.add_user_message
AddUserMessage(s, message_content) ==
    [s EXCEPT !.conversation =
                  Append(@, Message("user", message_content, "", Now(@), None, {})),
              !.last_call = [op |-> "add_user_message", message_content |-> message_content]]

\* _select_next_agent without the increment of the cursor
SelectNextAgentNoAdvance(index) ==
    [ agent_name |-> AgentKeys[(index % NumAgents) + 1],
      current_agent_index |-> index ]

\* DebateEngine._select_next_agent: the name returned and the cursor left
SelectNextAgent(index) ==
    LET next_agent_index == index % NumAgents IN
    [ agent_name |-> AgentKeys[next_agent_index + 1],
      current_agent_index |-> index + 1 ]

\* what the HTTP call does in a turn of the engine
EngineHttp ==
    { Http(FALSE, FALSE, JNull),
      Http(TRUE, TRUE, JObj("choices" :> JList(<<>>))),
      Http(TRUE, TRUE,
           JObj("choices" :> JList(<< JObj("message" :>
                  JObj("content" :> JStr(Phrase(<<"we", "disagree">>)))) >>))) }

\* a turn of DebateEngine.generate_responses that appends its message twice
BaseTurnAppendsTwice(s, http) ==
    LET sel      == SelectNextAgent(s.current_agent_index)
        agent    == s.config.agents[sel.agent_name]
        messages == [i \in DOMAIN s.conversation |-> SerializeMessage(s.conversation[i])]
        call     == GenerateResponse(s.config, messages, agent.model, http)
        s1       == [s EXCEPT !.current_agent_index = sel.current_agent_index,
                              !.turn_log = Append(@, [agent_name |-> sel.agent_name,
                                                      strategy |-> None]),
                              !.client_log = Append(@, call)]
        message  == Message("assistant", call.outcome.v, agent.model, Now(s.conversation),
                            StanceType(agent.stance),
                            {<<"agent_name", KeyText(sel.agent_name)>>})
    IN  IF call.outcome.tag = "raise"
        THEN [s1 EXCEPT !.raised = call.outcome.exc]
        ELSE [s1 EXCEPT !.conversation = Append(Append(@, message), message),
                        !.responses = Append(@, call.outcome.v)]

\* a turn of DebateEngine.generate_responses that hands the client the last
\* three messages only
BaseTurnSendsRecent(s, http) ==
    LET sel      == SelectNextAgent(s.current_agent_index)
        agent    == s.config.agents[sel.agent_name]
        recent   == SubSeq(s.conversation,
                           IF Len(s.conversation) > 3 THEN Len(s.conversation) - 2 ELSE 1,
                           Len(s.conversation))
        messages == [i \in DOMAIN recent |-> SerializeMessage(recent[i])]
        call     == GenerateResponse(s.config, messages, agent.model, http)
        s1       == [s EXCEPT !.current_agent_index = sel.current_agent_index,
                              !.turn_log = Append(@, [agent_name |-> sel.agent_name,
                                                      strategy |-> None]),
                              !.client_log = Append(@, call)]
    IN  IF call.outcome.tag = "raise"
        THEN [s1 EXCEPT !.raised = call.outcome.exc]
        ELSE [s1 EXCEPT
                !.conversation =
                    Append(@, Message("assistant", call.outcome.v, agent.model, Now(@),
                                      StanceType(agent.stance),
                                      {<<"agent_name", KeyText(sel.agent_name)>>})),
                !.responses = Append(@, call.outcome.v)]

\* a turn of DebateEngine.generate_responses that stamps every message with
\* the stance of the first persona
BaseTurnFirstStance(s, http) ==
    LET sel      == SelectNextAgent(s.current_agent_index)
        agent    == s.config.agents[sel.agent_name]
        messages == [i \in DOMAIN s.conversation |-> SerializeMessage(s.conversation[i])]
        call     == GenerateResponse(s.config, messages, agent.model, http)
        s1       == [s EXCEPT !.current_agent_index = sel.current_agent_index,
                              !.turn_log = Append(@, [agent_name |-> sel.agent_name,
                                                      strategy |-> None]),
                              !.client_log = Append(@, call)]
    IN  IF call.outcome.tag = "raise"
        THEN [s1 EXCEPT !.raised = call.outcome.exc]
        ELSE [s1 EXCEPT
                !.conversation =
                    Append(@, Message("assistant", call.outcome.v, agent.model, Now(@),
                                      StanceType(s.config.agents[AgentKeys[1]].stance),
                                      {<<"agent_name", KeyText(sel.agent_name)>>})),
                !.responses = Append(@, call.outcome.v)]

\* a turn of DebateEngine.generate_responses that appends no message when
\* the client gave an error text
BaseTurnSkipsErrorText(s, http) ==
    LET sel      == SelectNextAgent(s.current_agent_index)
        agent    == s.config.agents[sel.agent_name]
        messages == [i \in DOMAIN s.conversation |-> SerializeMessage(s.conversation[i])]
        call     == GenerateResponse(s.config, messages, agent.model, http)
        s1       == [s EXCEPT !.current_agent_index = sel.current_agent_index,
                              !.turn_log = Append(@, [agent_name |-> sel.agent_name,
                                                      strategy |-> None]),
                              !.client_log = Append(@, call)]
    IN  IF call.outcome.tag = "raise"
        THEN [s1 EXCEPT !.raised = call.outcome.exc]
        ELSE IF BeginsWith(call.outcome.v, ErrorPrefix)
        THEN [s1 EXCEPT !.responses = Append(@, call.outcome.v)]
        ELSE [s1 EXCEPT
                !.conversation =
                    Append(@, Message("assistant", call.outcome.v, agent.model, Now(@),
                                      StanceType(agent.stance),
                                      {<<"agent_name", KeyText(sel.agent_name)>>})),
                !.responses = Append(@, call.outcome.v)]

\* one iteration of the loop of DebateEngine.generate_responses, the HTTP
\* call doing http
BaseTurn(s, http) ==
    LET sel      == SelectNextAgent(s.current_agent_index)
        agent    == s.config.agents[sel.agent_name]
        messages == [i \in DOMAIN s.conversation |-> SerializeMessage(s.conversation[i])]
        call     == GenerateResponse(s.config, messages, agent.model, http)
        s1       == [s EXCEPT !.current_agent_index = sel.current_agent_index,
                              !.turn_log = Append(@, [agent_name |-> sel.agent_name,
                                                      strategy |-> None]),
                              !.client_log = Append(@, call)]
    IN  IF call.outcome.tag = "raise"
        THEN [s1 EXCEPT !.raised = call.outcome.exc]
        ELSE [s1 EXCEPT
                !.conversation =
                    Append(@, Message("assistant", call.outcome.v, agent.model, Now(@),
                                      StanceType(agent.stance),
                                      {<<"agent_name", KeyText(sel.agent_name)>>})),
                !.responses = Append(@, call.outcome.v)]

\* the loop of DebateEngine.generate_responses: the states it can end in
RECURSIVE BaseLoop(_, _)
BaseLoop(s, num_turns) ==
    IF num_turns = 0 \/ s.raised # None THEN {s}
    ELSE UNION { BaseLoop(BaseTurn(s, http), num_turns - 1) : http \in EngineHttp }

\* DebateEngine.generate_responses(num_turns)
BaseGenerateResponses(s, num_turns) ==
    BaseLoop([s EXCEPT !.responses = <<>>, !.raised = None,
                       !.last_call = [op |-> "generate_responses", num_turns |-> num_turns]],
             num_turns)

(***************************************************************************)
(* EnhancedDebateEngine: the operations.                                   *)
(***************************************************************************)
\* EnhancedDebateEngine._analyze_debate_context
AnalyzeDebateContext(s) ==
    [ phase |-> s.current_phase,
      emotional_intensity |-> 5,
      argument_strength |-> 7,
      topic_evolution |-> [current_focus |-> "main_topic"] ]

\* the default argument _adapt_debate_strategy creates for a persona that
\* has none in the registry
DefaultArgument(agent_config) ==
    ArgumentStructure(
        << Join(<<U("Default", "default"), W("premise"), W("for")>>) \o <<Sp>> \o agent_config.name >>,
        Join(<<U("Default", "default"), W("position"), W("for")>>) \o <<Sp>> \o agent_config.name,
        <<>>, <<>>, <<>>)

\* the key _adapt_debate_strategy looks the persona up by
RegistryLookupKey(agent_key, agent_config) == agent_config.name

\* EnhancedDebateEngine._adapt_debate_strategy, up to its random choice: the
\* registry it leaves and the arguments it chooses from
AdaptDebateStrategy(registry, agent_key, agent_config, context) ==
    LET key    == RegistryLookupKey(agent_key, agent_config)
        found  == IF DictHas(registry, key) THEN DictGet(registry, key) ELSE <<>>
        available_arguments ==
            IF Len(found) = 0 THEN <<DefaultArgument(agent_config)>> ELSE found
    IN  [ argument_registry |->
              IF Len(found) = 0 THEN DictSet(registry, key, available_arguments)
              ELSE registry,
          available_arguments |-> available_arguments,
          rhetoric_style |-> agent_config.primary_style,
          emotional_tone |-> 7,
          strategic_focus |-> context.phase ]

\* _update_debate_state that also adapts the confidence of the speaker
UpdateDebateStateAdapts(s, response, agent_name, personality) ==
    LET key == KeyText(agent_name)
        impact == CalculateEmotionalImpact(personality, response,
                      s.config.agents[agent_name].trigger_phrases)
    IN  [s EXCEPT
           !.analytics.argument_effectiveness =
               DictSet(@, key, Append(DefaultGet(@, key), 7)),
           !.analytics.emotional_trajectories =
               DictSet(@, key, Append(DefaultGet(@, key), impact)),
           !.personality_dynamics =
               DictSet(@, key, [personality EXCEPT !.confidence_level = 7]),
           !.current_phase = ProgressDebatePhase(@, s.conversation)]

\* _update_debate_state that records the effectiveness under every persona
UpdateDebateStateEveryPersona(s, response, agent_name, personality) ==
    LET key == KeyText(agent_name)
        impact == CalculateEmotionalImpact(personality, response,
                      s.config.agents[agent_name].trigger_phrases)
    IN  [s EXCEPT
           !.analytics.argument_effectiveness =
               [a \in DOMAIN AgentKeys |->
                  [k |-> KeyText(AgentKeys[a]),
                   v |-> Append(DefaultGet(@, KeyText(AgentKeys[a])), 7)]],
           !.analytics.emotional_trajectories =
               DictSet(@, key, Append(DefaultGet(@, key), impact)),
           !.current_phase = ProgressDebatePhase(@, s.conversation)]

\* EnhancedDebateEngine._update_debate_state
UpdateDebateState(s, response, agent_name, personality) ==
    LET key == KeyText(agent_name)
        impact == CalculateEmotionalImpact(personality, response,
                      s.config.agents[agent_name].trigger_phrases)
    IN  [s EXCEPT
           !.analytics.argument_effectiveness =
               DictSet(@, key, Append(DefaultGet(@, key), 7)),
           !.analytics.emotional_trajectories =
               DictSet(@, key, Append(DefaultGet(@, key), impact)),
           !.current_phase = ProgressDebatePhase(@, s.conversation)]

\* the cursor after a turn of EnhancedDebateEngine.generate_responses
AdvanceIndex(index) == (index + 1) % NumAgents

\* one iteration of the loop of EnhancedDebateEngine.generate_responses: the
\* states the random choices of the turn allow
EnhancedTurn(s) ==
    IF s.current_agent_index >= NumAgents
    THEN {[s EXCEPT !.raised = Exc("IndexError", FALSE, <<W("list index out of range")>>)]}
    ELSE
    LET agent_name   == AgentKeys[s.current_agent_index + 1]
        agent_config == s.config.agents[agent_name]
        personality  == DictGet(s.personality_dynamics, KeyText(agent_name))
        debate_context == AnalyzeDebateContext(s)
        adapted == AdaptDebateStrategy(s.argument_registry, agent_name, agent_config,
                                       debate_context)
    IN  UNION {
          LET adapted_strategy ==
                [ rhetoric_style |-> adapted.rhetoric_style,
                  argument_structure |-> argument,
                  emotional_tone |-> adapted.emotional_tone,
                  strategic_focus |-> adapted.strategic_focus ]
              s1 == [s EXCEPT !.argument_registry = adapted.argument_registry,
                              !.turn_log = Append(@, [agent_name |-> agent_name,
                                                      strategy |-> adapted_strategy])]
          IN  { IF r.tag = "raise"
                THEN [s1 EXCEPT !.raised = r.exc]
                ELSE LET s2 == UpdateDebateState(s1, r.v, agent_name, personality) IN
                     [s2 EXCEPT !.responses = Append(@, r.v),
                                !.current_agent_index = AdvanceIndex(@)] :
                r \in StrengthenArgument(argument, adapted_strategy.emotional_tone) } :
          argument \in Range(adapted.available_arguments) }

\* the loop of EnhancedDebateEngine.generate_responses: the states it can end in
RECURSIVE EnhancedLoop(_, _)
EnhancedLoop(s, num_turns) ==
    IF num_turns = 0 \/ s.raised # None THEN {s}
    ELSE UNION { EnhancedLoop(s1, num_turns - 1) : s1 \in EnhancedTurn(s) }

\* EnhancedDebateEngine.generate_responses(num_turns)
EnhancedGenerateResponses(s, num_turns) ==
    EnhancedLoop([s EXCEPT !.responses = <<>>, !.raised = None,
                           !.last_call = [op |-> "generate_responses", num_turns |-> num_turns]],
                 num_turns)

\* msg.metadata.get(key, default), the metadata kept as its set of items
MetadataGet(metadata, key, default) ==
    IF \E item \in metadata : item[1] = key
    THEN (CHOOSE item \in metadata : item[1] = key)[2]
    ELSE default

\* np.std(values), of which the model keeps whether the values differ: 0 for
\* equal values, 1 for any positive spread
Std(values) ==
    IF \A i, j \in DOMAIN values : values[i] = values[j] THEN 0 ELSE 1

\* DebateAnalytics._calculate_emotional_volatility
CalculateEmotionalVolatility(messages) ==
    LET emotional_states ==
          [i \in DOMAIN messages |-> MetadataGet(messages[i].metadata, "emotional_state", 5)]
    IN  IF Len(emotional_states) > 0 THEN Std(emotional_states) ELSE 0

\* DebateAnalytics.analyze_debate_dynamics
AnalyzeDebateDynamics(messages) ==
    [ emotional_volatility |-> CalculateEmotionalVolatility(messages),
      argument_coherence   |-> 7,
      strategy_evolution   |-> [strategy_shifts |-> <<5, 6, 7>>],
      interaction_flow     |-> [exchanges |-> Len(messages)] ]

\* the reads self.analytics.argument_effectiveness[agent] of
\* get_debate_analysis for the agents from the a-th on: a defaultdict gets
\* the key of every agent it is read for
RECURSIVE TouchEffectiveness(_, _)
TouchEffectiveness(d, a) ==
    IF a > Len(AgentKeys) THEN d
    ELSE TouchEffectiveness(DefaultTouch(d, KeyText(AgentKeys[a])), a + 1)

\* the dict of get_debate_analysis with the messages of the debate counted
\* without the personas' system messages
DebateAnalysisDebateMessages(s) ==
    [ dynamics |-> AnalyzeDebateDynamics(s.conversation),
      agent_performances |->
          [ a \in DOMAIN AgentKeys |->
              [ k |-> KeyText(AgentKeys[a]),
                v |-> Len(DefaultGet(s.analytics.argument_effectiveness,
                                     KeyText(AgentKeys[a]))) ] ],
      debate_progression |->
          [ current_phase |-> s.current_phase,
            messages_count |->
                Cardinality({i \in DOMAIN s.conversation : s.conversation[i].role # "system"}),
            emotional_trajectory |-> s.analytics.emotional_trajectories ] ]

\* the dict get_debate_analysis returns
DebateAnalysis(s) ==
    [ dynamics |-> AnalyzeDebateDynamics(s.conversation),
      agent_performances |->
          [ a \in DOMAIN AgentKeys |->
              [ k |-> KeyText(AgentKeys[a]),
                v |-> Len(DefaultGet(s.analytics.argument_effectiveness,
                                     KeyText(AgentKeys[a]))) ] ],
      debate_progression |->
          [ current_phase |-> s.current_phase,
            messages_count |-> Len(s.conversation),
            emotional_trajectory |-> s.analytics.emotional_trajectories ] ]

\* EnhancedDebateEngine.get_debate_analysis: the engine it leaves, the dict
\* returned being kept in last_call
GetDebateAnalysis(s) ==
    [s EXCEPT !.analytics.argument_effectiveness = TouchEffectiveness(@, 1),
              !.last_call = [op |-> "get_debate_analysis", analysis |-> DebateAnalysis(s)]]

(***************************************************************************)
(* The actions: what a caller does with the engine.                        *)
(***************************************************************************)
\* engine.add_user_message(topic)
UserMessage ==
    /\ UserMessageCount(conversation) < MaxUserMessages
    /\ \E topic \in Topics : Becomes(AddUserMessage(Self, topic))

\* engine.generate_responses(num_turns) on a DebateEngine
GenerateBase ==
    /\ engine = "base"
    /\ \E num_turns \in 0..MaxNumTurns :
          /\ Len(turn_log) + num_turns <= MaxTurns
          /\ \E s \in BaseGenerateResponses(Self, num_turns) : Becomes(s)

\* engine.generate_responses(num_turns) on an EnhancedDebateEngine
GenerateEnhanced ==
    /\ engine = "enhanced"
    /\ \E num_turns \in 0..MaxNumTurns :
          /\ Len(turn_log) + num_turns <= MaxTurns
          /\ \E s \in EnhancedGenerateResponses(Self, num_turns) : Becomes(s)

\* engine.get_debate_analysis() on an EnhancedDebateEngine, the only class
\* that has the method
GetAnalysis ==
    /\ engine = "enhanced"
    /\ Becomes(GetDebateAnalysis(Self))

Next == UserMessage \/ GenerateBase \/ GenerateEnhanced \/ GetAnalysis

Spec == Init /\ [][Next]_vars

(***************************************************************************)
(* The Response Client on its own: generate_response applied to every      *)
(* kind of HTTP outcome.                                                   *)
(***************************************************************************)
\* calls made to one client
MaxClientCalls == 1

Choice(message) == JObj("message" :> message)
Content(content) == Choice(JObj("content" :> content))
Choices(choices) == JObj("choices" :> choices)

\* bodies of the HTTP response
Bodies ==
    { NonJson(TRUE), NonJson(FALSE),
      JNull, JNum(5), JList(<<>>),
      JEmptyObj,
      Choices(JNull), Choices(JList(<<>>)), Choices(JEmptyObj), Choices(JNum(5)),
      Choices(JStr(Phrase(<<"none">>))),
      Choices(JList(<<JStr(Phrase(<<"text">>))>>)),
      Choices(JList(<<JEmptyObj>>)),
      Choices(JList(<<Choice(JNull)>>)),
      Choices(JList(<<Choice(JStr(Phrase(<<"text">>)))>>)),
      Choices(JList(<<Choice(JEmptyObj)>>)),
      Choices(JList(<<Content(JNull)>>)),
      Choices(JList(<<Content(JNum(5))>>)),
      Choices(JList(<<Content(JStr(<<>>))>>)),
      Choices(JList(<<Content(JStr(<<Sp>>))>>)),
      Choices(JList(<<Content(JStr(<<Sp, W("\n")>>))>>)),
      Choices(JList(<<Content(JStr(Phrase(<<"we", "disagree">>)))>>)),
      Choices(JList(<<Content(JStr(<<Sp>> \o Phrase(<<"we", "disagree">>) \o <<W("\n")>>))>>)),
      Choices(JList(<<Content(JStr(Phrase(<<"first">>))), Content(JStr(Phrase(<<"second">>)))>>)) }

HttpOutcomes == { Http(t, st, b) : t \in BOOLEAN, st \in BOOLEAN, b \in Bodies }

\* the transcripts and the models a call is made with
ClientMessages ==
    { LET conv == InitializeConversation(AppConfig, <<>>, 1) IN
      [i \in DOMAIN conv |-> SerializeMessage(conv[i])] }
ClientModels == { AppConfig.agents[AgentKeys[a]].model : a \in DOMAIN AgentKeys }

\* no engine is constructed
NoEngine ==
    /\ engine = "none"
    /\ sessions = None
    /\ heap = None
    /\ conversation = <<>>
    /\ status = None
    /\ current_agent_index = 0
    /\ error_count = 0
    /\ current_phase = None
    /\ personality_dynamics = None
    /\ argument_registry = None
    /\ analytics = None
    /\ responses = <<>>
    /\ raised = None
    /\ turn_log = <<>>

\* AIClient(config)
ClientInit ==
    /\ NoEngine
    /\ session_state = None
    /\ config = AppConfig
    /\ client_log = <<>>
    /\ last_call = None

\* client.generate_response(messages, model)
ClientCall ==
    /\ Len(client_log) < MaxClientCalls
    /\ \E messages \in ClientMessages, model \in ClientModels, http \in HttpOutcomes :
          /\ client_log' = Append(client_log, GenerateResponse(config, messages, model, http))
          /\ last_call' = [op |-> "generate_response", model |-> model]
    /\ UNCHANGED << engine, config, conversation, status, current_agent_index, error_count,
                    current_phase, personality_dynamics, argument_registry, analytics,
                    responses, raised, turn_log, sessions, heap, session_state >>

ClientNext == ClientCall

ClientSpec == ClientInit /\ [][ClientNext]_vars

(***************************************************************************)
(* The phase machine on its own: _progress_debate_phase applied to an      *)
(* EnhancedDebateEngine in any phase whose transcript holds the messages   *)
(* of any number of DebateEngine turns.                                    *)
(***************************************************************************)
\* turns generated by the engine the phase machine is exercised on
MaxPhaseTurns == 2

\* the transcript of a DebateEngine after `users` topics and `turns` turns
RECURSIVE TranscriptAfter(_, _)
TranscriptAfter(users, turns) ==
    IF turns = 0
    THEN IF users = 0 THEN InitializeConversation(AppConfig, <<>>, 1)
         ELSE Append(TranscriptAfter(users - 1, 0),
                     Message("user", CHOOSE topic \in Topics : TRUE, "",
                             Now(TranscriptAfter(users - 1, 0)), None, {}))
    ELSE LET before == TranscriptAfter(users, turns - 1)
             agent  == AppConfig.agents[AgentKeys[((turns - 1) % NumAgents) + 1]]
         IN  Append(before,
                    Message("assistant", Phrase(<<"we", "disagree">>), agent.model,
                            Now(before), StanceType(agent.stance),
                            {<<"agent_name", KeyText(AgentKeys[((turns - 1) % NumAgents) + 1])>>}))

\* the personalities drawn at the construction of that engine
PhasePersonalities ==
    { p \in [DOMAIN AgentKeys -> PersonalityDynamics] :
        \A a \in DOMAIN AgentKeys : /\ p[a].base_emotional_state = "calm"
                                    /\ p[a].trigger_sensitivity = 3 }

PhaseInit ==
    /\ engine = "enhanced"
    /\ config = AppConfig
    /\ sessions = None
    /\ heap = None
    /\ session_state = None
    /\ \E users \in 0..MaxUserMessages, turns \in 0..MaxAssistant :
          conversation = TranscriptAfter(users, turns)
    /\ \E p \in DOMAIN DebatePhases : current_phase = DebatePhases[p]
    /\ status = "not_started"
    /\ current_agent_index = 0
    /\ error_count = 0
    /\ analytics = DebateAnalytics
    /\ \E p \in PhasePersonalities :
          personality_dynamics =
              [a \in DOMAIN AgentKeys |-> [k |-> KeyText(AgentKeys[a]), v |-> p[a]]]
    /\ argument_registry = BuildArgumentRegistry(config)
    /\ responses = <<>>
    /\ raised = None
    /\ client_log = <<>>
    /\ turn_log = <<>>
    /\ last_call = None

\* engine._progress_debate_phase()
ProgressPhase ==
    /\ current_phase' = ProgressDebatePhase(current_phase, conversation)
    /\ last_call' = [op |-> "_progress_debate_phase", phase |-> current_phase]
    /\ UNCHANGED << engine, config, conversation, status, current_agent_index, error_count,
                    personality_dynamics, argument_registry, analytics,
                    responses, raised, client_log, turn_log, sessions, heap, session_state >>

\* engine.generate_responses(), num_turns left at its default of 1
GenerateEnhancedDefault ==
    /\ Len(turn_log) < MaxPhaseTurns
    /\ \E s \in EnhancedGenerateResponses(Self, 1) : Becomes(s)

PhaseNext == ProgressPhase \/ UserMessage \/ GenerateEnhancedDefault \/ GetAnalysis

PhaseSpec == PhaseInit /\ [][PhaseNext]_vars

(***************************************************************************)
(* Message on its own: to_dict, from_dict and _serialize_message applied   *)
(* to every kind of message.                                               *)
(***************************************************************************)
\* the messages the conversions are applied to
Messages ==
    { Message(role, content, model, timestamp, stance, metadata) :
        role \in {"system", "user", "assistant"},
        content \in { <<>>, Phrase(<<"we", "disagree">>) },
        model \in { "", AppConfig.agents[AgentKeys[1]].model },
        timestamp \in {0, 7},
        stance \in {None} \cup {StanceType(v) : v \in StanceValues},
        metadata \in { {}, {<<"agent_name", KeyText(AgentKeys[1])>>},
                       {<<"agent_name", KeyText(AgentKeys[2])>>, <<"emotional_state", 5>>} } }

\* one message, held where a transcript would hold it, and no call made yet
MessageInit ==
    /\ engine = "none"
    /\ \E m \in Messages : conversation = <<m>>
    /\ status = None
    /\ current_agent_index = 0
    /\ error_count = 0
    /\ current_phase = None
    /\ personality_dynamics = None
    /\ argument_registry = None
    /\ analytics = None
    /\ responses = <<>>
    /\ raised = None
    /\ turn_log = <<>>
    /\ sessions = None
    /\ heap = None
    /\ session_state = None
    /\ config = None
    /\ client_log = <<>>
    /\ last_call = None

\* what a conversion leaves unchanged
MessageFrame ==
    UNCHANGED << engine, config, conversation, status, current_agent_index, error_count,
                 current_phase, personality_dynamics, argument_registry, analytics,
                 responses, raised, client_log, turn_log, sessions, heap, session_state >>

\* message.to_dict()
ToDictCall ==
    /\ last_call' = [op |-> "to_dict", message |-> conversation[1],
                     result |-> ToDict(conversation[1])]
    /\ MessageFrame

\* Message.from_dict(data), data being what to_dict just returned
FromDictCall ==
    /\ last_call # None
    /\ last_call.op = "to_dict"
    /\ last_call' = [op |-> "from_dict", message |-> last_call.message,
                     data |-> last_call.result, result |-> FromDict(last_call.result)]
    /\ MessageFrame

\* engine._serialize_message(message)
SerializeCall ==
    /\ last_call' = [op |-> "_serialize_message", message |-> conversation[1],
                     result |-> SerializeMessage(conversation[1])]
    /\ MessageFrame

MessageNext == ToDictCall \/ FromDictCall \/ SerializeCall

MessageSpec == MessageInit /\ [][MessageNext]_vars

(***************************************************************************)
(* Two engines side by side. Their lists and dicts are objects of a heap   *)
(* that the attributes of an engine refer to; an operation changes the     *)
(* objects in place and rebinds the attributes that hold plain values.     *)
(***************************************************************************)
\* turns generated per engine
MaxSessionTurns == 1

\* a new object holding value: its reference and the heap with it, the
\* heap being the sequence of the objects made so far
Ref(id) == [t |-> "ref", id |-> id]
NewObject(h, value) == [ref |-> Ref(Len(h) + 1), heap |-> Append(h, value)]

\* a conversation list that is one list for every engine
SharedConversation(h) ==
    IF Len(h) = 0 THEN NewObject(h, <<>>) ELSE [ref |-> Ref(1), heap |-> h]

\* self.conversation = [] of DebateEngine.__init__
NewConversation(h) == NewObject(h, <<>>)

\* DebateEngine(config, client): the attributes of the new engine and the
\* heap after its construction
ConstructDebateEngine(h, cfg) ==
    LET conv == NewConversation(h)
        h1   == [conv.heap EXCEPT ![conv.ref.id] = InitializeConversation(cfg, @, 1)]
    IN  [ session |-> [ engine |-> "base", config |-> cfg, conversation |-> conv.ref,
                        status |-> "not_started", current_agent_index |-> 0,
                        error_count |-> 0, current_phase |-> None,
                        personality_dynamics |-> None, argument_registry |-> None,
                        analytics |-> None, turns |-> 0 ],
          heap |-> h1 ]

\* EnhancedDebateEngine(config, client), the personalities p being the
\* random draws of _initialize_personality_dynamics
ConstructEnhancedDebateEngine(h, cfg, p) ==
    LET base == ConstructDebateEngine(h, cfg)
        an   == NewObject(base.heap, DebateAnalytics)
        pd   == NewObject(an.heap,
                          [a \in DOMAIN AgentKeys |-> [k |-> KeyText(AgentKeys[a]), v |-> p[a]]])
        reg  == NewObject(pd.heap, BuildArgumentRegistry(cfg))
    IN  [ session |-> [base.session EXCEPT !.engine = "enhanced",
                                           !.analytics = an.ref,
                                           !.current_phase = "opening",
                                           !.personality_dynamics = pd.ref,
                                           !.argument_registry = reg.ref],
          heap |-> reg.heap ]

\* what an attribute holding reference ref stands for
Deref(h, ref) == IF ref = None THEN None ELSE h[ref.id]

\* the engine of attributes sess over heap h, as the record the operations
\* take, before a call
LoadFrom(sess, h) ==
    [ engine |-> sess.engine, config |-> sess.config,
      conversation |-> Deref(h, sess.conversation), status |-> sess.status,
      current_agent_index |-> sess.current_agent_index, error_count |-> sess.error_count,
      current_phase |-> sess.current_phase,
      personality_dynamics |-> Deref(h, sess.personality_dynamics),
      argument_registry |-> Deref(h, sess.argument_registry),
      analytics |-> Deref(h, sess.analytics),
      responses |-> <<>>, raised |-> None, client_log |-> <<>>, turn_log |-> <<>>,
      last_call |-> None ]

\* the heap after an operation left the engine of attributes sess as s: the
\* objects sess refers to hold what the operation made of them
StoreHeap(h, sess, s) ==
    LET h1 == [h EXCEPT ![sess.conversation.id] = s.conversation] IN
    IF sess.engine = "enhanced"
    THEN [h1 EXCEPT ![sess.analytics.id] = s.analytics,
                    ![sess.personality_dynamics.id] = s.personality_dynamics,
                    ![sess.argument_registry.id] = s.argument_registry]
    ELSE h1

\* the attributes after that operation
StoreAttrs(sess, s) ==
    [sess EXCEPT !.status = s.status,
                 !.current_agent_index = s.current_agent_index,
                 !.error_count = s.error_count,
                 !.current_phase = s.current_phase,
                 !.turns = @ + Len(s.turn_log)]

Sessions == {1, 2}

\* the personalities drawn at the construction of the two engines
SessionPersonalities == PhasePersonalities

\* two engines constructed one after the other from one config: a
\* DebateEngine or an EnhancedDebateEngine, then an EnhancedDebateEngine
SessionsInit ==
    /\ engine = "none"
    /\ config = AppConfig
    /\ conversation = <<>>
    /\ status = None
    /\ current_agent_index = 0
    /\ error_count = 0
    /\ current_phase = None
    /\ personality_dynamics = None
    /\ argument_registry = None
    /\ analytics = None
    /\ responses = <<>>
    /\ raised = None
    /\ client_log = <<>>
    /\ turn_log = <<>>
    /\ last_call = None
    /\ \E p \in SessionPersonalities, q \in SessionPersonalities, first \in {"base", "enhanced"} :
          LET one == IF first = "base"
                     THEN ConstructDebateEngine(<<>>, config)
                     ELSE ConstructEnhancedDebateEngine(<<>>, config, p)
              two == ConstructEnhancedDebateEngine(one.heap, config, q)
          IN  /\ sessions = <<one.session, two.session>>
              /\ heap = two.heap
    /\ session_state = None

\* the operation op(...) of engine i has left it as s
SessionBecomes(i, s) ==
    /\ heap' = StoreHeap(heap, sessions[i], s)
    /\ sessions' = [sessions EXCEPT ![i] = StoreAttrs(@, s)]
    /\ last_call' = [op |-> s.last_call.op, session |-> i]
    /\ UNCHANGED << engine, config, conversation, status, current_agent_index, error_count,
                    current_phase, personality_dynamics, argument_registry, analytics,
                    responses, raised, client_log, turn_log, session_state >>

\* engines[i].add_user_message(topic)
SessionUserMessage ==
    \E i \in Sessions, topic \in Topics :
        /\ UserMessageCount(LoadFrom(sessions[i], heap).conversation) < MaxUserMessages
        /\ SessionBecomes(i, AddUserMessage(LoadFrom(sessions[i], heap), topic))

\* engines[i].generate_responses()
SessionGenerate ==
    \E i \in Sessions :
        /\ sessions[i].turns < MaxSessionTurns
        /\ \E s \in IF sessions[i].engine = "base"
                     THEN BaseGenerateResponses(LoadFrom(sessions[i], heap), 1)
                     ELSE EnhancedGenerateResponses(LoadFrom(sessions[i], heap), 1) :
              SessionBecomes(i, s)

\* engines[i].get_debate_analysis()
SessionAnalysis ==
    \E i \in Sessions :
        /\ sessions[i].engine = "enhanced"
        /\ SessionBecomes(i, GetDebateAnalysis(LoadFrom(sessions[i], heap)))

SessionsNext == SessionUserMessage \/ SessionGenerate \/ SessionAnalysis

SessionsSpec == SessionsInit /\ [][SessionsNext]_vars

(***************************************************************************)
(* The application: the script of app.py run once per trigger, on the      *)
(* session state it keeps between runs.                                    *)
(***************************************************************************)
\* turns one debate of the application is followed for
MaxAppTurns == 4

\* what the key field and the secret NEBIUS_API_KEY can hold
ApiKeys == {"", "api-key"}

\* init_session_state on a new session, the deployment's secret being
\* secret; the engine it sets to None is the engine of the variables
InitSessionState(secret) ==
    [ debate_started      |-> FALSE,
      turn_count          |-> 0,
      auto_scroll         |-> TRUE,
      current_agent_index |-> 0,
      api_key             |-> secret,
      NEBIUS_API_KEY      |-> secret ]

\* the key field of the sidebar, read at every run of the script
ApiKeyInput(state, api_key_input) ==
    IF api_key_input # "" THEN [state EXCEPT !.api_key = api_key_input] ELSE state

\* st.session_state.api_key or st.secrets.get("NEBIUS_API_KEY")
KeyOrSecret(state) ==
    IF state.api_key # "" THEN state.api_key ELSE state.NEBIUS_API_KEY

\* the first run of the script: no engine yet
AppInit ==
    /\ NoEngine
    /\ config = None
    /\ client_log = <<>>
    /\ last_call = None
    /\ \E secret \in ApiKeys : session_state = InitSessionState(secret)

\* the form "Begin Debate" submitted with user_input (empty when nothing
\* was typed)
BeginDebate ==
    /\ ~ session_state.debate_started
    /\ \E api_key_input \in ApiKeys, user_input \in Topics \cup {<<>>} :
          LET state == ApiKeyInput(session_state, api_key_input) IN
          IF user_input = <<>> \/ KeyOrSecret(state) = ""
          THEN /\ session_state' = state
               /\ EngineBecomes(Self)
          ELSE LET cfg    == [AppConfig EXCEPT !.api_key = KeyOrSecret(state)]
                   built  == ConstructDebateEngine(<<>>, cfg)
                   debate == AddUserMessage(LoadFrom(built.session, built.heap), user_input)
               IN  \E s \in BaseGenerateResponses(debate, 1) :
                      /\ EngineBecomes(s)
                      /\ session_state' = [state EXCEPT !.debate_started = TRUE,
                                                        !.turn_count = 0]
    /\ UNCHANGED << sessions, heap >>

\* the button with a follow-up comment of the user appended before the turn
NextTurnWithFollowUp ==
    /\ session_state.debate_started
    /\ Len(turn_log) < MaxAppTurns
    /\ \E api_key_input \in ApiKeys, user_input \in Topics :
          \E s \in BaseGenerateResponses(AddUserMessage(Self, user_input), 1) :
             /\ EngineBecomes(s)
             /\ session_state' =
                   [ApiKeyInput(session_state, api_key_input) EXCEPT
                       !.turn_count = IF s.raised = None THEN @ + 1 ELSE @]
    /\ UNCHANGED << sessions, heap >>

\* the button "Generate Next Turn"
NextTurn ==
    /\ session_state.debate_started
    /\ Len(turn_log) < MaxAppTurns
    /\ \E api_key_input \in ApiKeys :
          \E s \in BaseGenerateResponses(Self, 1) :
             /\ EngineBecomes(s)
             /\ session_state' =
                   [ApiKeyInput(session_state, api_key_input) EXCEPT
                       !.turn_count = IF s.raised = None THEN @ + 1 ELSE @]
    /\ UNCHANGED << sessions, heap >>

AppNext == BeginDebate \/ NextTurn

AppSpec == AppInit /\ [][AppNext]_vars

(***************************************************************************)
(* strengthen_argument on its own: the method called with any confidence   *)
(* on the arguments of an EnhancedDebateEngine, between the engine's turns. *)
(***************************************************************************)
\* the largest confidence given, in tenths
MaxConfidence == 10

\* turns generated by the engine whose arguments are strengthened
MaxStrengthenTurns == 1

StrengthenInit ==
    /\ engine = "enhanced"
    /\ \E p \in PhasePersonalities : EnhancedDebateEngineInit(p)

\* argument.strengthen_argument(confidence) on an argument of the registry;
\* the call leaves the engine as it was, so a call that follows another
\* starts where that one started and only calls after an operation of the
\* engine are followed
StrengthenCall ==
    /\ IF last_call = None THEN TRUE ELSE last_call.op # "strengthen_argument"
    /\ \E i \in DOMAIN argument_registry :
          \E j \in DOMAIN argument_registry[i].v, confidence \in 0..MaxConfidence :
             \E r \in StrengthenArgument(argument_registry[i].v[j], confidence) :
                last_call' = [ op         |-> "strengthen_argument",
                               argument   |-> argument_registry[i].v[j],
                               confidence |-> confidence,
                               result     |-> r ]
    /\ UNCHANGED << engine, config, conversation, status, current_agent_index, error_count,
                    current_phase, personality_dynamics, argument_registry, analytics,
                    responses, raised, client_log, turn_log, sessions, heap, session_state >>

\* engine.generate_responses(), num_turns left at its default of 1
StrengthenTurn ==
    /\ Len(turn_log) < MaxStrengthenTurns
    /\ \E s \in EnhancedGenerateResponses(Self, 1) : Becomes(s)

StrengthenNext == StrengthenCall \/ StrengthenTurn

StrengthenSpec == StrengthenInit /\ [][StrengthenNext]_vars

(***************************************************************************)
(* The emotional trajectory on its own: _update_debate_state given any     *)
(* response and any personality, between the turns of the engine.          *)
(***************************************************************************)
\* entries recorded in the trajectories of one engine
MaxTrajectory == 2

\* the largest trigger_sensitivity given, in tenths
MaxSensitivity == 10

\* responses holding no, one, two and three trigger phrases of a persona,
\* some of them capitalised
ImpactResponses ==
    { Sentence("We", "we", <<"disagree">>),
      Join(<<U("Traditional", "traditional"), U("Values", "values"), W("perpetuate"),
             W("oppression")>>),
      Join(<<U("Personal", "personal"), W("responsibility"), W("and"), W("traditional"),
             W("values"), W("beat"), U("Social", "social"), U("Justice", "justice"),
             W("and"), W("privilege")>>),
      Join(<<U("Individual", "individual"), W("merit"), W("market"), W("solutions"),
             W("personal"), W("responsibility"), W("against"), W("systemic"), W("change"),
             W("privilege"), W("oppression")>>) }

\* PersonalityDynamics objects of every trigger_sensitivity
ImpactPersonalities ==
    { [p EXCEPT !.trigger_sensitivity = x] :
        p \in { q \in PersonalityDynamics : /\ q.base_emotional_state = "calm"
                                             /\ q.trigger_sensitivity = 3 },
        x \in 0..MaxSensitivity }

\* the entries the trajectories hold
RECURSIVE TrajectoryEntries(_, _)
TrajectoryEntries(trajectories, i) ==
    IF i > Len(trajectories) THEN 0
    ELSE Len(trajectories[i].v) + TrajectoryEntries(trajectories, i + 1)

ImpactInit ==
    /\ engine = "enhanced"
    /\ \E p \in PhasePersonalities : EnhancedDebateEngineInit(p)

\* engine._update_debate_state(response, agent_name, personality)
UpdateStateCall ==
    /\ TrajectoryEntries(analytics.emotional_trajectories, 1) < MaxTrajectory
    /\ \E response \in ImpactResponses, a \in DOMAIN AgentKeys,
          personality \in ImpactPersonalities :
          Becomes([UpdateDebateState(Self, response, AgentKeys[a], personality) EXCEPT
                      !.last_call = [ op          |-> "_update_debate_state",
                                      response    |-> response,
                                      agent_name  |-> AgentKeys[a],
                                      personality |-> personality ]])

\* engine.generate_responses(), num_turns left at its default of 1
ImpactTurn ==
    /\ TrajectoryEntries(analytics.emotional_trajectories, 1) < MaxTrajectory
    /\ \E s \in EnhancedGenerateResponses(Self, 1) : Becomes(s)

ImpactNext == UpdateStateCall \/ ImpactTurn

ImpactSpec == ImpactInit /\ [][ImpactNext]_vars

(***************************************************************************)
(* What the claims speak of.                                               *)
(***************************************************************************)
\* the persona whose turn the i-th turn is (i from 0), round robin
RoundRobin(i) == AgentKeys[(i % NumAgents) + 1]

IsAssistant(message) == message.role = "assistant"
AssistantMessages == SelectSeq(conversation, IsAssistant)

\* the ways an HTTP call fails: no transport, a non-success status, a body
\* that is no JSON, a body of an unexpected shape (no object; or a non-empty
\* `choices` whose first message content cannot be reached or is no string)
TransportFailure(http) == ~http.transport_ok
NonSuccessStatus(http) == http.transport_ok /\ ~http.status_ok
Decoded(http) == http.transport_ok /\ http.status_ok /\ http.body.t # "nonjson"
NonJsonBody(http) == http.transport_ok /\ http.status_ok /\ http.body.t = "nonjson"
HasField(j, key) == j.t = "obj" /\ key \in DOMAIN j.v
\* the first choice of a body whose `choices` is a non-empty list
HasFirstChoice(http) ==
    /\ Decoded(http)
    /\ HasField(http.body, "choices")
    /\ http.body.v["choices"].t = "list"
    /\ Len(http.body.v["choices"].v) > 0
FirstChoice(http) == http.body.v["choices"].v[1]
UnexpectedShape(http) ==
    /\ Decoded(http)
    /\ \/ http.body.t # "obj"
       \/ /\ HasField(http.body, "choices")
          /\ http.body.v["choices"].t \in {"num", "str"}
          /\ ~PyNot(http.body.v["choices"])
       \/ /\ HasFirstChoice(http)
          /\ \/ FirstChoice(http).t # "obj"
             \/ /\ HasField(FirstChoice(http), "message")
                /\ \/ FirstChoice(http).v["message"].t \notin {"obj", "null"}
                   \/ /\ HasField(FirstChoice(http).v["message"], "content")
                      /\ FirstChoice(http).v["message"].v["content"].t \notin {"str", "null"}
ClientFailure(http) ==
    TransportFailure(http) \/ NonSuccessStatus(http) \/ NonJsonBody(http) \/ UnexpectedShape(http)

\* a successful response whose `choices` is the empty list
EmptyChoices(http) ==
    /\ Decoded(http)
    /\ HasField(http.body, "choices")
    /\ http.body.v["choices"] = JList(<<>>)

\* a successful response whose first choice has no message, no content, a
\* null content or a content of whitespace only
EmptyOrMissingContent(http) ==
    /\ HasFirstChoice(http)
    /\ FirstChoice(http).t = "obj"
    /\ \/ ~HasField(FirstChoice(http), "message")
       \/ /\ FirstChoice(http).v["message"].t = "obj"
          /\ LET message == FirstChoice(http).v["message"] IN
             \/ ~HasField(message, "content")
             \/ message.v["content"].t = "null"
             \/ /\ message.v["content"].t = "str"
                /\ Strip(message.v["content"].v) = <<>>

\* the position in the transcript of the message the turn of client call c
\* appends: right after the transcript the call was given
TurnPosition(c) == Len(c.request.json.messages) + 1

(***************************************************************************)
(* The claims.                                                             *)
(***************************************************************************)

\* C1: with one user topic added, the transcript of either engine has
\* (persona count) + 1 + N messages after N turns.
C1_TranscriptLength ==
    (UserMessageCount(conversation) = 1 /\ raised = None) =>
        Len(conversation) = NumAgents + 1 + Len(turn_log)

\* C2: in both engines the speaker of the i-th turn (from 0) is
\* personas[i mod persona count], whatever the calls of generate_responses
\* and their num_turns; in the DebateEngine the i-th assistant message of the
\* transcript is stamped with that persona.
C2_RoundRobin ==
    /\ \A i \in DOMAIN turn_log : turn_log[i].agent_name = RoundRobin(i - 1)
    /\ engine = "base" =>
          \A i \in DOMAIN AssistantMessages :
              /\ AssistantMessages[i].metadata = {<<"agent_name", KeyText(RoundRobin(i - 1))>>}
              /\ AssistantMessages[i].model = AppConfig.agents[RoundRobin(i - 1)].model

\* C2, its case: a call of two turns has ended the third turn or a later
\* one, so the order has wrapped around.
C2_Witness ==
    /\ engine = "base"
    /\ Len(turn_log) >= 3
    /\ Len(responses) = 2
    /\ turn_log[3].agent_name = AgentKeys[1]

\* the phase the claim C3 gives for k turns
PhaseAfter(k) ==
    IF k < 3 THEN "opening"
    ELSE IF k < 5 THEN "exploration"
    ELSE IF k < 8 THEN "confrontation"
    ELSE IF k < 10 THEN "resolution"
    ELSE "reflection"

\* C3: after the k-th turn of EnhancedDebateEngine.generate_responses the
\* phase is opening for k < 3, exploration for 3 <= k < 5, confrontation for
\* 5 <= k < 8, resolution for 8 <= k < 10 and reflection from 10 on.
C3_PhaseFollowsTurns ==
    (engine = "enhanced" /\ raised = None) =>
        current_phase = PhaseAfter(Len(turn_log))

\* the rank of a phase in opening < exploration < confrontation < resolution
\* < reflection
PhaseRank(phase) == CHOOSE r \in DOMAIN DebatePhases : DebatePhases[r] = phase

\* C4: no operation of the engine moves current_phase to an earlier phase.
C4_PhaseNeverRegresses ==
    [][PhaseRank(current_phase') >= PhaseRank(current_phase)]_vars

\* C4, its case: a phase check has moved an engine from one phase to the next.
C4_Witness ==
    /\ last_call # None
    /\ last_call.op = "_progress_debate_phase"
    /\ last_call.phase = "resolution"
    /\ current_phase = "reflection"

\* C5: when every client call has failed, the error counter counts the
\* failed turns, the status is ERROR from the max_errors-th failure on, and
\* no client call is made after it.
C5_FailuresAreCounted ==
    (engine = "base" /\ \A i \in DOMAIN client_log : ClientFailure(client_log[i].http)) =>
        /\ Len(client_log) <= MaxErrors
        /\ error_count = Len(client_log)
        /\ (Len(client_log) = MaxErrors => status = "error")

\* a step of a DebateEngine that is one turn whose client call failed
FailedBaseTurn ==
    /\ engine = "base"
    /\ Len(client_log') = Len(client_log) + 1
    /\ ClientFailure(client_log'[Len(client_log')].http)

\* C6, as claimed: a turn of the DebateEngine whose client call fails returns
\* the error string and leaves the transcript unchanged.
C6_FailedTurnLeavesTranscript ==
    [][FailedBaseTurn =>
          /\ responses' = <<client_log'[Len(client_log')].outcome.v>>
          /\ conversation' = conversation]_vars

\* C6, amended: a turn of the DebateEngine whose client call fails returns
\* the error string and appends it to the transcript as the content of one
\* assistant message of the selected persona.
C6_FailedTurnAppendsErrorText ==
    \A i \in DOMAIN client_log :
        (engine = "base" /\ ClientFailure(client_log[i].http)) =>
            /\ client_log[i].outcome.tag = "return"
            /\ BeginsWith(client_log[i].outcome.v, ErrorPrefix)
            /\ TurnPosition(client_log[i]) <= Len(conversation)
            /\ conversation[TurnPosition(client_log[i])].role = "assistant"
            /\ conversation[TurnPosition(client_log[i])].content = client_log[i].outcome.v
            /\ conversation[TurnPosition(client_log[i])].model = client_log[i].request.json.model
            /\ (i > Len(client_log) - Len(responses) =>
                  responses[i - (Len(client_log) - Len(responses))] = client_log[i].outcome.v)

\* C6, its case: the last turn's client call failed and its error text is
\* the last message of the transcript.
C6_Witness ==
    /\ engine = "base"
    /\ Len(client_log) > 0
    /\ ClientFailure(client_log[Len(client_log)].http)
    /\ Len(responses) > 0
    /\ conversation[Len(conversation)].content = responses[Len(responses)]
    /\ BeginsWith(conversation[Len(conversation)].content, ErrorPrefix)

\* C7: generate_response returns a text for every outcome of the HTTP call
\* and raises nothing; for a transport failure, a non-success status, a body
\* that is no JSON and a body of an unexpected shape the text begins with
\* 'Error generating response:'.
C7_ClientNeverRaises ==
    \A i \in DOMAIN client_log :
        /\ client_log[i].outcome.tag = "return"
        /\ ClientFailure(client_log[i].http) =>
              /\ BeginsWith(client_log[i].outcome.v, ErrorPrefix)
              /\ Len(client_log[i].outcome.v) > Len(ErrorPrefix)

\* C7, its case: a body of an unexpected shape was answered with the error text.
C7_Witness ==
    \E i \in DOMAIN client_log :
        /\ UnexpectedShape(client_log[i].http)
        /\ client_log[i].outcome.tag = "return"
        /\ BeginsWith(client_log[i].outcome.v, ErrorPrefix)

\* C8: a completion with an empty choices list raises nothing and its turn
\* appends one message whose content is exactly the sentinel text; it is not
\* counted as an error.
C8_EmptyChoicesGiveSentinel ==
    \A i \in DOMAIN client_log :
        EmptyChoices(client_log[i].http) =>
            /\ client_log[i].outcome = [tag |-> "return", v |-> EmptyResponseText]
            /\ raised = None
            /\ TurnPosition(client_log[i]) <= Len(conversation)
            /\ conversation[TurnPosition(client_log[i])].role = "assistant"
            /\ conversation[TurnPosition(client_log[i])].content = EmptyResponseText
            /\ ((\A j \in DOMAIN client_log : EmptyChoices(client_log[j].http)) =>
                  error_count = 0 /\ status # "error")

\* C8, its case: a turn got an empty choices list and appended the sentinel.
C8_Witness ==
    /\ Len(client_log) > 0
    /\ EmptyChoices(client_log[Len(client_log)].http)
    /\ conversation[Len(conversation)].role = "assistant"
    /\ conversation[Len(conversation)].content = EmptyResponseText

\* C9: a successful response whose first choice has an empty or missing
\* message content (whitespace only, null, or the message or content field
\* absent) makes generate_response return the sentinel text.
C9_MissingContentGivesSentinel ==
    \A i \in DOMAIN client_log :
        EmptyOrMissingContent(client_log[i].http) =>
            client_log[i].outcome = [tag |-> "return", v |-> EmptyResponseText]

\* C10: in every state of either engine the cursor indexes a persona:
\* 0 <= current_agent_index < persona count.
C10_CursorIndexesPersona ==
    engine \in {"base", "enhanced"} =>
        (0 <= current_agent_index /\ current_agent_index < NumAgents)

\* C11: the transcript begins with exactly one system message per persona,
\* in persona order, each stamped with its persona's name, model and stance,
\* and holds no other system message, whatever operations have run.
C11_SystemMessagesSeeded ==
    /\ Len(conversation) >= NumAgents
    /\ \A i \in 1..NumAgents :
          /\ conversation[i].role = "system"
          /\ conversation[i].metadata = {<<"agent_name", AppConfig.agents[AgentKeys[i]].name>>}
          /\ conversation[i].model = AppConfig.agents[AgentKeys[i]].model
          /\ conversation[i].stance = StanceType(AppConfig.agents[AgentKeys[i]].stance)
          /\ BeginsWith(conversation[i].content, Join(<<U("You", "you"), W("are")>>))
    /\ \A i \in DOMAIN conversation : i > NumAgents => conversation[i].role # "system"

\* C11, its case: a topic and a turn have followed the seeded messages.
C11_Witness ==
    /\ Len(conversation) >= NumAgents + 2
    /\ conversation[NumAgents + 1].role = "user"
    /\ conversation[NumAgents + 2].role = "assistant"

\* a is a prefix of b
IsPrefix(a, b) == Len(a) <= Len(b) /\ SubSeq(b, 1, Len(a)) = a

\* C12: every operation (add_user_message, generate_responses,
\* get_debate_analysis) leaves the transcript it found as a prefix of the
\* transcript it leaves.
C12_TranscriptAppendOnly ==
    [][IsPrefix(conversation, conversation')]_vars

\* C12, its case: a turn, a topic and another turn were appended in that order.
C12_Witness ==
    /\ Len(conversation) = NumAgents + 3
    /\ conversation[NumAgents + 1].role = "assistant"
    /\ conversation[NumAgents + 2].role = "user"
    /\ conversation[NumAgents + 3].role = "assistant"

\* the number of assistant messages at which a phase is left, by the table
\* of the phases
PhaseThreshold(phase) ==
    CASE phase = "opening" -> 3
      [] phase = "exploration" -> 5
      [] phase = "confrontation" -> 8
      [] phase = "resolution" -> 10

\* the phase after one transition check: the next phase when the threshold
\* of the current one is met, the current one otherwise
OneTransition(phase, count) ==
    IF phase # "reflection" /\ count >= PhaseThreshold(phase)
    THEN DebatePhases[PhaseRank(phase) + 1]
    ELSE phase

\* C13: a turn runs the transition check once: it moves the phase to the
\* next one when the assistant count meets the threshold of the current
\* phase, and no further, even when the count meets later thresholds too.
C13_OneTransitionPerTurn ==
    [][Len(turn_log') = Len(turn_log) + 1 =>
          /\ current_phase' = OneTransition(current_phase, AssistantCount(conversation'))
          /\ PhaseRank(current_phase') <= PhaseRank(current_phase) + 1]_vars

\* C13, its case: a turn has moved an engine from opening to exploration
\* while its assistant count met the threshold of every phase.
C13_Witness ==
    /\ last_call # None
    /\ last_call.op = "generate_responses"
    /\ Len(turn_log) = 1
    /\ AssistantCount(conversation) >= 10
    /\ current_phase = "exploration"

\* C14: every turn of either engine makes exactly one call of the Response
\* Client, for the model of the persona selected; the calls made so far are
\* as many as the turns generated so far.
C14_OneClientCallPerTurn ==
    /\ Len(client_log) = Len(turn_log)
    /\ \A i \in DOMAIN turn_log :
          i <= Len(client_log) =>
              client_log[i].request.json.model = AppConfig.agents[turn_log[i].agent_name].model

\* C16: the argument structure of a turn of the EnhancedDebateEngine is one
\* of the registry entries built for the speaking persona, and its
\* conclusion is one of that persona's core beliefs.
C16_ArgumentFromBeliefs ==
    \A i \in DOMAIN turn_log :
        turn_log[i].strategy # None =>
            /\ turn_log[i].strategy.argument_structure.conclusion
                  \in Range(AppConfig.agents[turn_log[i].agent_name].core_beliefs)
            /\ turn_log[i].strategy.argument_structure
                  \in Range(DictGet(BuildArgumentRegistry(AppConfig),
                                    KeyText(turn_log[i].agent_name)))

\* C15: Message.from_dict(m.to_dict()) equals m in role, content, model,
\* timestamp, stance and metadata, for every role, every stance (a member of
\* StanceType or None) and every metadata; _serialize_message(m) is the
\* dict m.to_dict() is.
C15_MessageRoundTrip ==
    /\ (last_call # None /\ last_call.op = "from_dict") =>
          /\ last_call.data = ToDict(last_call.message)
          /\ last_call.result = Ok(last_call.message)
    /\ (last_call # None /\ last_call.op = "_serialize_message") =>
          last_call.result = ToDict(last_call.message)

\* C15, its case: an assistant message with a stance and metadata has made
\* the round trip.
C15_Witness ==
    /\ last_call # None
    /\ last_call.op = "from_dict"
    /\ last_call.message.role = "assistant"
    /\ last_call.message.stance = StanceType("neutral")
    /\ last_call.message.metadata # {}
    /\ last_call.data.stance = [t |-> "str", v |-> "neutral"]
    /\ last_call.result.tag = "ok"

\* the statistics get_debate_analysis reports of the engine as it is: the
\* emotional trajectories and, per persona, the size of its
\* argument_effectiveness list
Statistics ==
    [ emotional_trajectory |-> DebateAnalysis(Self).debate_progression.emotional_trajectory,
      agent_performances   |-> DebateAnalysis(Self).agent_performances ]

\* C17: the statistics are a function of the transcript: two states of an
\* engine (same personas, same personality parameters) with equal
\* transcripts get equal statistics from get_debate_analysis; in particular
\* a step that leaves the transcript as it was leaves the statistics as
\* they were.
C17_StatisticsProjectTranscript ==
    [][(/\ engine = "enhanced"
        /\ config' = config
        /\ personality_dynamics' = personality_dynamics
        /\ conversation' = conversation) => Statistics' = Statistics]_vars

\* the turns of a log that a persona spoke
TurnsSpokenBy(log, agent_name) ==
    Cardinality({i \in DOMAIN log : log[i].agent_name = agent_name})

\* C18: a step of an EnhancedDebateEngine extends the emotional_trajectories
\* list and the argument_effectiveness list of each persona by one entry per
\* turn that persona spoke in the step and by nothing else, the entries
\* already there staying as they are; the agent_performances count that
\* get_debate_analysis reports for a persona is the number of turns that
\* persona has spoken.
C18_StatisticsGrowPerTurn ==
    [][engine = "enhanced" =>
          \A a \in DOMAIN AgentKeys :
              LET key    == KeyText(AgentKeys[a])
                  spoken == TurnsSpokenBy(turn_log', AgentKeys[a])
                              - TurnsSpokenBy(turn_log, AgentKeys[a])
                  eff    == DefaultGet(analytics.argument_effectiveness, key)
                  eff2   == DefaultGet(analytics'.argument_effectiveness, key)
                  emo    == DefaultGet(analytics.emotional_trajectories, key)
                  emo2   == DefaultGet(analytics'.emotional_trajectories, key)
              IN  /\ IsPrefix(eff, eff2) /\ Len(eff2) = Len(eff) + spoken
                  /\ IsPrefix(emo, emo2) /\ Len(emo2) = Len(emo) + spoken
                  /\ Len(eff2) = TurnsSpokenBy(turn_log', AgentKeys[a])
                  /\ last_call'.op = "get_debate_analysis" =>
                        DictGet(last_call'.analysis.agent_performances, key)
                          = TurnsSpokenBy(turn_log', AgentKeys[a])]_vars

\* C18, its case: after three turns get_debate_analysis reports two turns
\* of the first persona and one of the second.
C18_Witness ==
    /\ engine = "enhanced"
    /\ last_call # None
    /\ last_call.op = "get_debate_analysis"
    /\ Len(turn_log) = 3
    /\ DictGet(last_call.analysis.agent_performances, KeyText(AgentKeys[1])) = 2
    /\ DictGet(last_call.analysis.agent_performances, KeyText(AgentKeys[2])) = 1
    /\ Len(DictGet(analytics.emotional_trajectories, KeyText(AgentKeys[1]))) = 2

\* C20: no operation changes the persona configurations (config.agents) or
\* the PersonalityDynamics of a persona: both are after add_user_message,
\* generate_responses and get_debate_analysis what they were before, and
\* the configuration is the one the engine was constructed with.
C20_ConfigAndPersonalitiesFixed ==
    [][/\ config' = config
       /\ config'.agents = AppConfig.agents
       /\ personality_dynamics' = personality_dynamics]_vars

\* C20, its case: an EnhancedDebateEngine has taken a topic, two turns and
\* an analysis, and its personas have the personalities drawn at construction.
C20_Witness ==
    /\ engine = "enhanced"
    /\ UserMessageCount(conversation) = 1
    /\ Len(turn_log) >= 2
    /\ last_call # None
    /\ last_call.op = "get_debate_analysis"
    /\ config.agents = AppConfig.agents
    /\ DictGet(personality_dynamics, KeyText(AgentKeys[1])).trigger_sensitivity = 8
    /\ DictGet(personality_dynamics, KeyText(AgentKeys[2])).trigger_sensitivity = 3

\* what a debate session owns: its transcript, cursor, phase, error count,
\* status, statistics, personalities and registry
SessionView(sess, h) == LoadFrom(sess, h)

\* C19: an operation on one of two separately constructed engines
\* (add_user_message, generate_responses, get_debate_analysis) leaves the
\* transcript, the cursor, the phase, the error count and the statistics of
\* the other as they were.
C19_SessionsShareNoState ==
    [][\A i \in Sessions, j \in Sessions :
          (i # j /\ last_call'.session = i) =>
              SessionView(sessions'[j], heap') = SessionView(sessions[j], heap)]_vars

\* C19, its case: both engines have taken a topic and a turn, the second
\* last, and the first has the transcript and the statistics of its own turn.
C19_Witness ==
    /\ sessions # None
    /\ last_call # None
    /\ last_call.session = 2
    /\ last_call.op = "generate_responses"
    /\ \A i \in Sessions :
          /\ sessions[i].turns = 1
          /\ sessions[i].engine = "enhanced"
          /\ UserMessageCount(SessionView(sessions[i], heap).conversation) = 1
          /\ Len(SessionView(sessions[i], heap).conversation) = NumAgents + 1
          /\ Len(DefaultGet(SessionView(sessions[i], heap).analytics.argument_effectiveness,
                            KeyText(AgentKeys[1]))) = 1

C22_RequestCarriesAllParameters ==
    \A i \in DOMAIN client_log :
        LET json == client_log[i].request.json IN
        /\ \A k \in DOMAIN json.messages : DOMAIN json.messages[k] = {"role", "content"}
        /\ {"model", "messages", "max_tokens", "temperature", "top_p",
             "frequency_penalty", "presence_penalty"} \subseteq DOMAIN json
        /\ json.max_tokens = AppConfig.max_tokens
        /\ json.temperature = AppConfig.temperature
        /\ json.top_p = AppConfig.top_p
        /\ json.frequency_penalty = AppConfig.frequency_penalty
        /\ json.presence_penalty = AppConfig.presence_penalty

\* C23: a new EnhancedDebateEngine is in phase opening; one call of
\* _progress_debate_phase in phase p with c assistant messages gives
\* exploration for opening and c >= 3, confrontation for exploration and
\* c >= 5, resolution for confrontation and c >= 8, reflection for
\* resolution and c >= 10, and p otherwise; no operation leaves reflection.
C23_TransitionTable ==
    [][/\ \A p \in PhasePersonalities :
             ConstructEnhancedDebateEngine(<<>>, AppConfig, p).session.current_phase = "opening"
       /\ last_call'.op = "_progress_debate_phase" =>
             current_phase' =
                 CASE current_phase = "opening" /\ AssistantCount(conversation) >= 3
                        -> "exploration"
                   [] current_phase = "exploration" /\ AssistantCount(conversation) >= 5
                        -> "confrontation"
                   [] current_phase = "confrontation" /\ AssistantCount(conversation) >= 8
                        -> "resolution"
                   [] current_phase = "resolution" /\ AssistantCount(conversation) >= 10
                        -> "reflection"
                   [] OTHER -> current_phase
       /\ current_phase = "reflection" => current_phase' = "reflection"]_vars

\* C23, its case: a phase check at exactly eight assistant messages has
\* moved an engine from confrontation to resolution.
C23_Witness ==
    /\ last_call # None
    /\ last_call.op = "_progress_debate_phase"
    /\ last_call.phase = "confrontation"
    /\ AssistantCount(conversation) = 8
    /\ current_phase = "resolution"

\* a call of generate_responses on a DebateEngine has just returned
BaseCallReturned ==
    /\ engine = "base"
    /\ last_call # None
    /\ last_call.op = "generate_responses"
    /\ raised = None

\* C24: DebateEngine.generate_responses(k) grows the transcript by exactly k
\* messages and returns k texts that are, in order, the contents of the k
\* messages it appended, whatever texts the client returned.
C24_CallAppendsWhatItReturns ==
    BaseCallReturned =>
        LET k == last_call.num_turns
            before == Len(conversation) - k
        IN  /\ Len(responses) = k
            /\ before >= NumAgents
            /\ k > 0 =>
                  Len(client_log[Len(client_log) - k + 1].request.json.messages) = before
            /\ \A j \in 1..k :
                  /\ conversation[before + j].role = "assistant"
                  /\ conversation[before + j].content = responses[j]
                  /\ client_log[Len(client_log) - k + j].outcome.v = responses[j]

\* C24, its case: a call of two turns got an error text and then the
\* empty-response text, and returned both.
C24_Witness ==
    /\ BaseCallReturned
    /\ last_call.num_turns = 2
    /\ Len(responses) = 2
    /\ BeginsWith(responses[1], ErrorPrefix)
    /\ responses[2] = EmptyResponseText
    /\ conversation[Len(conversation)].content = EmptyResponseText

\* C25: the client call of each turn of the DebateEngine is given the whole
\* transcript as it was just before the turn, every message in its wire
\* form and in transcript order (the messages of earlier turns of the same
\* call included), and the model of the persona selected for the turn.
C25_CallGetsFullTranscript ==
    engine = "base" =>
        \A i \in DOMAIN client_log :
            LET messages == client_log[i].request.json.messages IN
            /\ Len(messages) + 1 <= Len(conversation)
            /\ messages = [k \in 1..Len(messages) |-> ToDict(conversation[k])]
            /\ AssistantCount(SubSeq(conversation, 1, Len(messages))) = i - 1
            /\ conversation[Len(messages) + 1].role = "assistant"
            /\ client_log[i].request.json.model = AppConfig.agents[turn_log[i].agent_name].model

\* C25, its case: the second turn of a call of two turns was given a
\* transcript that ends with the message of the first turn and holds the topic.
C25_Witness ==
    /\ BaseCallReturned
    /\ last_call.num_turns = 2
    /\ Len(client_log) >= 2
    /\ LET messages == client_log[Len(client_log)].request.json.messages IN
          /\ messages[Len(messages)].role = "assistant"
          /\ messages[Len(messages)].content = responses[1]
          /\ \E k \in DOMAIN messages : messages[k].role = "user"

\* C26: every turn of the DebateEngine appends one message of role
\* assistant stamped with the model, the stance and the name (metadata
\* agent_name) of the persona selected; with the two personas of different
\* stance, consecutive assistant messages carry different stances.
C26_MessagesStampedWithPersona ==
    engine = "base" =>
        /\ Len(AssistantMessages) = Len(turn_log)
        /\ \A i \in DOMAIN AssistantMessages :
              LET agent == AppConfig.agents[turn_log[i].agent_name] IN
              /\ AssistantMessages[i].model = agent.model
              /\ AssistantMessages[i].stance = StanceType(agent.stance)
              /\ AssistantMessages[i].metadata =
                    {<<"agent_name", KeyText(turn_log[i].agent_name)>>}
        /\ \A i \in DOMAIN AssistantMessages :
              i < Len(AssistantMessages) =>
                  AssistantMessages[i].stance # AssistantMessages[i + 1].stance

\* C26, its case: three turns have left messages of stance left, right, left.
C26_Witness ==
    /\ engine = "base"
    /\ Len(AssistantMessages) = 3
    /\ AssistantMessages[1].stance = StanceType("left")
    /\ AssistantMessages[2].stance = StanceType("right")
    /\ AssistantMessages[3].stance = StanceType("left")

\* the transcript of a debate of the application: the system messages of
\* the personas, the one message of the user, then the turns
DebateShape(conv) ==
    /\ Len(conv) >= NumAgents + 1
    /\ \A i \in DOMAIN conv :
          conv[i].role = (IF i <= NumAgents THEN "system"
                          ELSE IF i = NumAgents + 1 THEN "user" ELSE "assistant")

\* C27: in every state the application's triggers reach (Begin Debate, then
\* Generate Next Turn any number of times) the transcript is the personas'
\* system messages, then exactly one user message, then only assistant
\* messages, as many as triggers were served; and every trigger that is
\* served generates exactly one turn and appends no user message.
C27_OneTurnPerTrigger ==
    /\ [](IF session_state.debate_started
          THEN /\ DebateShape(conversation)
               /\ UserMessageCount(conversation) = 1
               /\ AssistantCount(conversation) = session_state.turn_count + 1
               /\ Len(turn_log) = session_state.turn_count + 1
          ELSE engine = "none" /\ conversation = <<>> /\ turn_log = <<>>)
    /\ [][ session_state'.debate_started =>
             /\ Len(turn_log') = Len(turn_log) + 1
             /\ AssistantCount(conversation') = AssistantCount(conversation) + 1
             /\ session_state.debate_started =>
                   /\ Len(conversation') = Len(conversation) + 1
                   /\ UserMessageCount(conversation') = UserMessageCount(conversation) ]_vars

\* the debate was begun and two more turns were asked for
C27_Witness ==
    /\ session_state # None
    /\ session_state.debate_started
    /\ session_state.turn_count = 2
    /\ Len(conversation) = NumAgents + 4
    /\ conversation[Len(conversation)].role = "assistant"

\* C28: add_user_message appends exactly one message, of role user, the
\* content given, an empty model and no stance, at the end of the transcript,
\* and leaves the cursor, the phase, the status, the error count and the
\* statistics as they were.
C28_AddUserMessageFrame ==
    [][ (last_call' # None /\ last_call'.op = "add_user_message") =>
          /\ Len(conversation') = Len(conversation) + 1
          /\ SubSeq(conversation', 1, Len(conversation)) = conversation
          /\ LET m == conversation'[Len(conversation')]
             IN  /\ m.role = "user"
                 /\ m.content = last_call'.message_content
                 /\ m.model = ""
                 /\ m.stance = None
          /\ UNCHANGED << current_agent_index, current_phase, status, error_count,
                          analytics >> ]_vars

\* a user message added after a turn was generated, the cursor having moved
C28_Witness ==
    /\ last_call # None
    /\ last_call.op = "add_user_message"
    /\ current_agent_index > 0
    /\ Len(turn_log) > 0
    /\ conversation[Len(conversation)].role = "user"
    /\ conversation[Len(conversation)].stance = None

\* C29: get_debate_analysis leaves the transcript, the cursor and the phase
\* as they were, and the dict it returns reports as current_phase the phase
\* of the engine and as messages_count the length of the whole transcript,
\* the system messages of the personas and the user's messages included.
C29_AnalysisReadsSession ==
    [][ (last_call' # None /\ last_call'.op = "get_debate_analysis") =>
          /\ UNCHANGED << conversation, current_agent_index, current_phase >>
          /\ LET progression == last_call'.analysis.debate_progression
             IN  /\ progression.current_phase = current_phase
                 /\ progression.messages_count = Len(conversation)
                 /\ progression.messages_count =
                       Cardinality({i \in DOMAIN conversation :
                                       conversation[i].role \in {"system", "user"}})
                       + AssistantCount(conversation) ]_vars

\* the analysis asked for in the confrontation phase after a turn moved the
\* cursor, the transcript holding the topic and five turns of a DebateEngine:
\* eight messages are counted, two of them system
C29_Witness ==
    /\ last_call # None
    /\ last_call.op = "get_debate_analysis"
    /\ current_agent_index > 0
    /\ current_phase = "confrontation"
    /\ last_call.analysis.debate_progression.current_phase = "confrontation"
    /\ UserMessageCount(conversation) = 1
    /\ AssistantCount(conversation) = 5
    /\ last_call.analysis.debate_progression.messages_count = NumAgents + 6

\* the thresholds of the tiers, in tenths
TierThresholds == {4, 6, 8}

\* text opens with one of the modifiers of tier k and with none of another
OpensWithTier(text, k) ==
    \A tier \in TierThresholds :
       (tier = k) <=> \E m \in Range(DictGet(StrengthModifiers, tier)) :
                         BeginsWith(text, m \o <<W(","), Sp>>)

\* C30: strengthen_argument called with a confidence words its text with a
\* modifier of the largest threshold among 0.4, 0.6 and 0.8 that does not
\* exceed the confidence, and fails for want of a tier when the confidence is
\* below 0.4; every turn of EnhancedDebateEngine.generate_responses passes
\* the emotional tone 0.7 as confidence, so its response is worded with a
\* modifier of tier 0.6 and the turn never fails.
C30_TierOfConfidence ==
    [][ /\ (last_call' # None /\ last_call'.op = "strengthen_argument") =>
             LET fit == {k \in TierThresholds : k <= last_call'.confidence}
                 r   == last_call'.result
             IN  IF fit = {}
                 THEN /\ last_call'.confidence < 4
                      /\ r.tag = "raise"
                      /\ r.exc.cls = "ValueError"
                 ELSE /\ r.tag = "ok"
                      /\ \E k \in fit : /\ \A y \in fit : y <= k
                                        /\ OpensWithTier(r.v, k)
        /\ (last_call' # None /\ last_call'.op = "generate_responses") =>
             /\ raised' = None
             /\ Len(turn_log') = Len(turn_log) + 1
             /\ turn_log'[Len(turn_log')].strategy.emotional_tone = 7
             /\ Len(responses') = 1
             /\ OpensWithTier(responses'[1], 6) ]_vars

\* after a turn of the engine, an argument strengthened with confidence 0.9,
\* which reaches all three thresholds, is worded with a modifier of tier 0.8
C30_Witness ==
    /\ Len(turn_log) = 1
    /\ OpensWithTier(responses[1], 6)
    /\ last_call # None
    /\ last_call.op = "strengthen_argument"
    /\ last_call.confidence = 9
    /\ last_call.result.tag = "ok"
    /\ OpensWithTier(last_call.result.v, 8)

\* the trigger phrases of persona agent_name that occur in the lower-cased
\* response
TriggersIn(response, agent_name) ==
    Cardinality({i \in DOMAIN AppConfig.agents[agent_name].trigger_phrases :
                    Contains(Lower(response),
                             AppConfig.agents[agent_name].trigger_phrases[i])})

\* the step records min(1, n * trigger_sensitivity) at the end of the
\* trajectory of agent_name and leaves the other trajectories as they were
RecordsImpact(response, agent_name, personality) ==
    LET product == TriggersIn(response, agent_name) * personality.trigger_sensitivity
        before  == DefaultGet(analytics.emotional_trajectories, KeyText(agent_name))
        after   == DefaultGet(analytics'.emotional_trajectories, KeyText(agent_name))
    IN  /\ Len(after) = Len(before) + 1
        /\ SubSeq(after, 1, Len(before)) = before
        /\ after[Len(after)] = (IF product <= 10 THEN product ELSE 10)
        /\ after[Len(after)] \in 0..10
        /\ \A a \in DOMAIN AgentKeys :
              AgentKeys[a] # agent_name =>
                 DefaultGet(analytics'.emotional_trajectories, KeyText(AgentKeys[a]))
                   = DefaultGet(analytics.emotional_trajectories, KeyText(AgentKeys[a]))

\* C31: every entry recorded in a persona's emotional trajectory lies between
\* 0 and 1 (here in tenths): for a trigger_sensitivity between 0 and 1 the
\* entry a step records is the smaller of 1 and n times the sensitivity, n
\* being the number of that persona's trigger phrases that occur in the
\* lower-cased response, whether the response is given to
\* _update_debate_state or generated by a turn of the engine.
C31_ImpactWithinUnitInterval ==
    [][ /\ (last_call' # None /\ last_call'.op = "_update_debate_state"
                             /\ last_call'.personality.trigger_sensitivity \in 0..10) =>
             RecordsImpact(last_call'.response, last_call'.agent_name,
                           last_call'.personality)
        /\ (last_call' # None /\ last_call'.op = "generate_responses") =>
             LET agent_name == turn_log'[Len(turn_log')].agent_name
             IN  RecordsImpact(responses'[1], agent_name,
                               DictGet(personality_dynamics, KeyText(agent_name))) ]_vars

\* a response holding two of the persona's trigger phrases, one of them
\* capitalised, met with sensitivity 0.8: 1.6 is recorded as 1, after an
\* entry of 0 that a turn of the engine recorded
C31_Witness ==
    /\ last_call # None
    /\ last_call.op = "_update_debate_state"
    /\ last_call.personality.trigger_sensitivity = 8
    /\ TriggersIn(last_call.response, last_call.agent_name) = 2
    /\ Len(turn_log) = 1
    /\ \E a \in DOMAIN AgentKeys :
          LET trajectory == DefaultGet(analytics.emotional_trajectories, KeyText(AgentKeys[a]))
          IN  /\ AgentKeys[a] = last_call.agent_name
              /\ AgentKeys[a] = turn_log[1].agent_name
              /\ trajectory = <<0, 10>>

====
